---- MODULE Spec2Model ----
(***************************************************************************)
(* Verification model of the HL2-DINO tool tracker.                        *)
(*                                                                         *)
(* Lengths are integers in units of 0.1 mm.  Marker positions lie on one   *)
(* axis (Eigen::Vector3d(x, 0, 0)), so the Euclidean norm of a difference  *)
(* is the absolute value of the difference of the x coordinates.          *)
(* Indices into the C++ vectors are kept 0-based as in the source; the     *)
(* TLA+ sequences that hold the vectors are indexed with idx + 1.          *)
(***************************************************************************)
EXTENDS Integers, Sequences, FiniteSets, TLC

\* CorrespondenceMatcher.cpp thresholds, in units of 0.1 mm
THRESH_FOR_DISTANCE == 25
THRESH_FOR_DUPLICATES == 10

\* std::map<uint8_t, ...>: keys are stored modulo 2^8
UINT8_MOD == 256

----------------------------------------------------------------------------
(* Small helpers on sequences *)

Abs(x) == IF x < 0 THEN -x ELSE x

\* (a - b).norm() for points on one axis
Norm(a, b) == Abs(a - b)

Range(s) == {s[i] : i \in 1..Len(s)}

\* std::vector::erase(begin() + idx), idx 0-based
EraseAt(s, idx) == [i \in 1..(Len(s) - 1) |-> IF i <= idx THEN s[i] ELSE s[i + 1]]

RECURSIVE SumSeq(_)
SumSeq(s) == IF s = <<>> THEN 0 ELSE Head(s) + SumSeq(Tail(s))

RECURSIVE Flatten(_)
Flatten(ss) == IF ss = <<>> THEN <<>> ELSE Head(ss) \o Flatten(Tail(ss))

\* ascending enumeration of a finite set of integers (std::map iteration order,
\* std::sort of an index list)
RECURSIVE SortedSeq(_)
SortedSeq(S) ==
    IF S = {} THEN <<>>
    ELSE LET m == CHOOSE x \in S : \A y \in S : x <= y
         IN <<m>> \o SortedSeq(S \ {m})

Reverse(s) == [i \in 1..Len(s) |-> s[Len(s) + 1 - i]]

----------------------------------------------------------------------------
(* CorrespondenceMatcher *)

\* RemoveDuplicates: for every kept point, every later point closer than
\* THRESH_FOR_DUPLICATES is erased
RECURSIVE RemoveDuplicates(_)
RemoveDuplicates(ioPointList) ==
    IF ioPointList = <<>> THEN <<>>
    ELSE LET p1 == Head(ioPointList)
             far(p2) == ~(Norm(p1, p2) < THRESH_FOR_DUPLICATES)
         IN <<p1>> \o RemoveDuplicates(SelectSeq(Tail(ioPointList), far))

\* CreateIndexList: an empty list is seeded with the singletons <<0>>..<<n-1>>;
\* otherwise every configuration is extended by every index it does not hold.
\* The boolean result is ignored by the only caller and is not modelled.
CreateIndexList(inputList, unregPointsCount) ==
    IF Len(inputList) = 0
    THEN [i \in 1..unregPointsCount |-> <<i - 1>>]
    ELSE LET expand(cfg) ==
                 LET free == SelectSeq([i \in 1..unregPointsCount |-> i - 1],
                                       LAMBDA i : i \notin Range(cfg))
                 IN [k \in 1..Len(free) |-> Append(cfg, free[k])]
         IN Flatten([c \in 1..Len(inputList) |-> expand(inputList[c])])

\* FilterByDistance: walks the list front to back; stops (leaving the rest
\* untouched) at the first option with fewer than two indices, otherwise
\* erases the option when the distance of its last two points differs from
\* inDistance by more than THRESH_FOR_DISTANCE
RECURSIVE FilterByDistance(_, _, _)
FilterByDistance(inDistance, inputList, unregisteredPoints) ==
    IF inputList = <<>> THEN <<>>
    ELSE LET opt == Head(inputList)
         IN IF Len(opt) < 2 THEN inputList
            ELSE LET diffMag ==
                         Abs(Norm(unregisteredPoints[opt[Len(opt)] + 1],
                                  unregisteredPoints[opt[Len(opt) - 1] + 1])
                             - inDistance)
                     rest == FilterByDistance(inDistance, Tail(inputList),
                                              unregisteredPoints)
                 IN IF diffMag > THRESH_FOR_DISTANCE THEN rest
                    ELSE <<opt>> \o rest

\* the for loop of GetPointCorrespondence over ReferencePoints[1..]
RECURSIVE MatchLoop(_, _, _, _)
MatchLoop(k, indicesList, ReferencePoints, CollectedPoints) ==
    IF k > Len(ReferencePoints) THEN indicesList
    ELSE MatchLoop(k + 1,
                   FilterByDistance(Norm(ReferencePoints[k], ReferencePoints[k - 1]),
                                    CreateIndexList(indicesList, Len(CollectedPoints)),
                                    CollectedPoints),
                   ReferencePoints, CollectedPoints)

\* GetPointCorrespondence: both arguments are non-const references and leave
\* de-duplicated; CorrespondenceList is assigned only past the size check
GetPointCorrespondence(ReferencePoints, CollectedPoints, CorrespondenceList) ==
    LET ref == RemoveDuplicates(ReferencePoints)
        col == RemoveDuplicates(CollectedPoints)
    IN IF Len(ref) < 3 \/ Len(col) < 3
       THEN [ret |-> FALSE, ReferencePoints |-> ref, CollectedPoints |-> col,
             CorrespondenceList |-> CorrespondenceList]
       ELSE LET indicesList ==
                    MatchLoop(2, CreateIndexList(<<>>, Len(col)), ref, col)
            IN [ret |-> Len(indicesList) > 0,
                ReferencePoints |-> ref, CollectedPoints |-> col,
                CorrespondenceList |-> indicesList]

\* ComputeRigidTransform for points on one axis: the rotation acts on the
\* axis as r = +1 or -1 (the sign of the cross-covariance H), the translation
\* is t = center_dst - r * center_src (integer division at 0.1 mm resolution)
Identity == [r |-> 1, t |-> 0]

\* a solver that returns the identity whatever the pairs are
ComputeRigidTransformIdentity(src, dst) == Identity

ComputeRigidTransform(src, dst) ==
    IF Len(src) # Len(dst) THEN Identity
    ELSE LET pairSize == Len(src)
             sumS == SumSeq(src)
             sumD == SumSeq(dst)
             H == SumSeq([i \in 1..pairSize |->
                             (pairSize * dst[i] - sumD) * (pairSize * src[i] - sumS)])
             r == IF H < 0 THEN -1 ELSE 1
         IN [r |-> r, t |-> (sumD - r * sumS) \div pairSize]

----------------------------------------------------------------------------
(* Inputs of the tracker *)

\* number of entries of one configuration string
MaxTools == 2

\* tool geometries (x coordinates of the markers); the last one holds two
\* markers 0.5 mm apart
Geometries == {<<0, 300, 700>>, <<0, 400, 900>>, <<0, 5, 300, 700>>}

\* ids written in configuration entries; 257 does not fit a uint8_t
ConfigIds == {1, 2, 257}

\* one record of the delimited text form: "id,x,y,z,x,y,z,..."
EntryOf(id, geometry) ==
    <<id>> \o Flatten([i \in 1..Len(geometry) |-> <<geometry[i], 0, 0>>])

ConfigEntries == {EntryOf(id, g) : id \in ConfigIds, g \in Geometries}

RECURSIVE SeqsUpTo(_, _)
SeqsUpTo(S, n) ==
    IF n = 0 THEN {<<>>}
    ELSE LET shorter == SeqsUpTo(S, n - 1)
         IN shorter \cup {Append(s, x) : s \in {q \in shorter : Len(q) = n - 1}, x \in S}

ConfigStrings == SeqsUpTo(ConfigEntries, MaxTools)

\* world x coordinates at which a frame may show a validated blob
MarkerCoords == {0, 5, 300, 700, 1000, 1400, 1900}

\* the InfraBlobInfo ValidateBlobs3D emits for a marker at world coordinate w:
\* pixel coordinate in tenths of a pixel, point in the sensor frame, point in
\* the world frame (sensor 200 mm from the world origin)
BlobAt(w) == [PixelCoordinate |-> 1003 + 2 * w,
              DepthLocation   |-> w - 2000,
              WorldLocation   |-> w]

\* the blob lists of a frame: the markers inside the field of view [lo, hi]
\* of the sensor, in ascending or in descending image order
FramePools ==
    LET views == {{w \in MarkerCoords : lo <= w /\ w <= hi} :
                      lo \in MarkerCoords, hi \in MarkerCoords}
        asc(S) == LET o == SortedSeq(S) IN [i \in 1..Len(o) |-> BlobAt(o[i])]
    IN {asc(S) : S \in views} \cup {Reverse(asc(S)) : S \in views}

\* content of an Eigen::Matrix4d that was never assigned
UninitialisedPoses == {[r |-> 1, t |-> 0], [r |-> -1, t |-> 4242]}

----------------------------------------------------------------------------
(* Holo2IRTracker *)

VARIABLES
    m_ToolDictionary,       \* std::map<uint8_t, TrackedTool>
    configOrder,            \* keys in the order the configuration emplaced them
    configGeometry,         \* key -> GeometryPoints as configured
    m_cache_frameBlobInfo,  \* validated blobs; TryUpdatingToolDictionary erases from it
    frameBlobs,             \* the validated blobs of the last frame as ValidateBlobs3D emitted them
    lastCall                \* the member of Holo2IRTracker that ran last

trackerVars == <<m_ToolDictionary, configOrder, configGeometry,
                 m_cache_frameBlobInfo, frameBlobs, lastCall>>

\* cv::Point2i from cv::Point2f: rounds to the nearest pixel
ToPoint2i(p) == (p + 5) \div 10

\* IRTrackerUtils::TrackedTool as default-constructed
TrackedTool(pose) ==
    [ID |-> 255, VisibleToHoloLens |-> FALSE, GeometryPoints |-> <<>>,
     ObservedPoints_World |-> <<>>, ObservedPoints_Depth |-> <<>>,
     PoseMatrix_HoloWorld |-> pose, ObservedImgKeypoints |-> <<>>]

\* one iteration of the loop of SetToolListFromString over the records
ParseEntry(toolTripletsStr, pose) ==
    [TrackedTool(pose) EXCEPT
        !.ID = toolTripletsStr[1] % UINT8_MOD,
        !.GeometryPoints =
            [i \in 1..((Len(toolTripletsStr) - 1) \div 3) |-> toolTripletsStr[(i - 1) * 3 + 2]]]

\* SetToolListFromString: try_emplace keeps the first tool of a key
RECURSIVE SetToolListFromString(_, _, _)
SetToolListFromString(delimitedMsg, toolDictionary, pose) ==
    IF delimitedMsg = <<>> THEN toolDictionary
    ELSE LET tool == ParseEntry(Head(delimitedMsg), pose)
             next == IF tool.ID \in DOMAIN toolDictionary THEN toolDictionary
                     ELSE [k \in DOMAIN toolDictionary \cup {tool.ID} |->
                              IF k = tool.ID THEN tool ELSE toolDictionary[k]]
         IN SetToolListFromString(Tail(delimitedMsg), next, pose)

\* keys in the order try_emplace accepted them
RECURSIVE EmplaceOrder(_, _)
EmplaceOrder(delimitedMsg, seen) ==
    IF delimitedMsg = <<>> THEN <<>>
    ELSE LET id == Head(delimitedMsg)[1] % UINT8_MOD
         IN IF id \in seen THEN EmplaceOrder(Tail(delimitedMsg), seen)
            ELSE <<id>> \o EmplaceOrder(Tail(delimitedMsg), seen \cup {id})

\* a dictionary that iterates in descending key order
DictionaryOrderDescending(toolDictionary) == Reverse(SortedSeq(DOMAIN toolDictionary))

\* iteration order of "for (auto& [_, tool] : toolDictionary)": std::map
\* iterates in ascending key order
DictionaryOrder(toolDictionary) == SortedSeq(DOMAIN toolDictionary)

\* the erase loop at the end of a successful match: largest index first, the
\* same index erased from all four vectors
RECURSIVE ErasePoints(_, _)
ErasePoints(st, descending) ==
    IF descending = <<>> THEN st
    ELSE LET idx == Head(descending)
         IN ErasePoints(
                [st EXCEPT !.validBlobData = EraseAt(@, idx),
                           !.collectedPoints = EraseAt(@, idx),
                           !.blobPixelLocations = EraseAt(@, idx),
                           !.collectedDepthPoints = EraseAt(@, idx)],
                Tail(descending))

\* a tool that would be set visible whatever was observed
SizesAgreeAlways(tool) == TRUE

\* the check of line 89: as many points observed as the geometry holds
SizesAgree(tool) == Len(tool.GeometryPoints) = Len(tool.ObservedPoints_World)

\* body of the loop of TryUpdatingToolDictionary for the tool stored under key
UpdateTool(st, key) ==
    LET tool == st.toolDictionary[key]
        reset == [tool EXCEPT !.PoseMatrix_HoloWorld = Identity,
                              !.VisibleToHoloLens = FALSE,
                              !.ObservedImgKeypoints = <<>>,
                              !.ObservedPoints_Depth = <<>>,
                              !.ObservedPoints_World = <<>>]
        gpc == GetPointCorrespondence(reset.GeometryPoints, st.collectedPoints, <<>>)
        \* both arguments were passed by reference
        deduped == [reset EXCEPT !.GeometryPoints = gpc.ReferencePoints]
        st1 == [st EXCEPT !.collectedPoints = gpc.CollectedPoints]
        put(s, t) == [s EXCEPT !.toolDictionary[key] = t]
        candidateList == gpc.CorrespondenceList
    IN IF ~gpc.ret THEN put(st1, deduped)
       ELSE IF Len(candidateList) = 0 THEN put(st1, deduped)
       ELSE LET indexList == candidateList[1]
                inRange == SelectSeq(indexList,
                               LAMBDA idx : idx > -1 /\ idx < Len(st1.collectedPoints))
                observed ==
                    [deduped EXCEPT
                        !.ObservedPoints_World =
                            [i \in 1..Len(inRange) |-> st1.collectedPoints[inRange[i] + 1]],
                        !.ObservedPoints_Depth =
                            [i \in 1..Len(inRange) |-> st1.collectedDepthPoints[inRange[i] + 1]],
                        !.ObservedImgKeypoints =
                            [i \in 1..Len(inRange) |-> st1.blobPixelLocations[inRange[i] + 1]]]
            IN IF ~SizesAgree(observed)
               THEN put(st1, observed)
               ELSE LET found ==
                            [observed EXCEPT
                                !.PoseMatrix_HoloWorld =
                                    ComputeRigidTransform(observed.GeometryPoints,
                                                          observed.ObservedPoints_World),
                                !.VisibleToHoloLens = TRUE]
                    IN ErasePoints(put(st1, found),
                                   Reverse(SortedSeq(Range(indexList))))

RECURSIVE UpdateTools(_, _)
UpdateTools(st, keys) ==
    IF keys = <<>> THEN st
    ELSE UpdateTools(UpdateTool(st, Head(keys)), Tail(keys))

\* TryUpdatingToolDictionary: both arguments are updated in place
TryUpdatingToolDictionary(validBlobData, toolDictionary) ==
    LET n == Len(validBlobData)
        st0 == [validBlobData        |-> validBlobData,
                toolDictionary       |-> toolDictionary,
                collectedPoints      |-> [i \in 1..n |-> validBlobData[i].WorldLocation],
                collectedDepthPoints |-> [i \in 1..n |-> validBlobData[i].DepthLocation],
                blobPixelLocations   |-> [i \in 1..n |-> ToPoint2i(validBlobData[i].PixelCoordinate)]]
    IN UpdateTools(st0, DictionaryOrder(toolDictionary))

\* Holo2IRTracker(encodedString, false): a new tracker whose dictionary is
\* filled from the delimited text form
Construct(encodedString) ==
    \E pose \in UninitialisedPoses :
        /\ m_ToolDictionary' = SetToolListFromString(encodedString, <<>>, pose)
        /\ configOrder' = EmplaceOrder(encodedString, {})
        /\ configGeometry' =
               [k \in DOMAIN m_ToolDictionary' |-> m_ToolDictionary'[k].GeometryPoints]
        /\ m_cache_frameBlobInfo' = <<>>
        /\ frameBlobs' = <<>>
        /\ lastCall' = "Holo2IRTracker"

\* ProcessLatestFrames from the point where ValidateBlobs3D has filled
\* m_cache_frameBlobInfo with the blobs of the frame
ProcessLatestFrames(blobs) ==
    LET out == TryUpdatingToolDictionary(blobs, m_ToolDictionary)
    IN /\ m_ToolDictionary' = out.toolDictionary
       /\ m_cache_frameBlobInfo' = out.validBlobData
       /\ frameBlobs' = blobs
       /\ lastCall' = "ProcessLatestFrames"
       /\ UNCHANGED <<configOrder, configGeometry>>

InitTracker ==
    /\ m_ToolDictionary = <<>>
    /\ configOrder = <<>>
    /\ configGeometry = <<>>
    /\ m_cache_frameBlobInfo = <<>>
    /\ frameBlobs = <<>>
    /\ lastCall = "none"

SetToolList == \E encodedString \in ConfigStrings : Construct(encodedString)

Frame == \E blobs \in FramePools : ProcessLatestFrames(blobs)

----------------------------------------------------------------------------
(* GetPointCorrespondence on its own: the inputs are drawn in the initial   *)
(* state, the call stores what the function returns and leaves in its       *)
(* arguments                                                                *)

\* length of the reference and of the collected list
MaxRefLen == 4
MaxColLen == 4

MatchCoords == {0, 5, 300, 700, 1200}

RECURSIVE InjectiveSeqs(_, _)
InjectiveSeqs(S, n) ==
    IF n = 0 THEN {<<>>}
    ELSE LET shorter == InjectiveSeqs(S, n - 1)
             longest == {q \in shorter : Len(q) = n - 1}
         IN shorter \cup UNION {{Append(q, x) : x \in S \ Range(q)} : q \in longest}

VARIABLES
    matchIn,    \* [ReferencePoints, CollectedPoints] as passed
    matchOut    \* <<>> before the call, then what GetPointCorrespondence left

matchVars == <<matchIn, matchOut>>

InitMatchIdle ==
    /\ matchIn = [ReferencePoints |-> <<>>, CollectedPoints |-> <<>>]
    /\ matchOut = <<>>

InitMatch ==
    /\ matchIn \in [ReferencePoints : InjectiveSeqs(MatchCoords, MaxRefLen),
                    CollectedPoints : InjectiveSeqs(MatchCoords, MaxColLen)]
    /\ matchOut = <<>>

CallGetPointCorrespondence ==
    /\ matchOut = <<>>
    /\ matchOut' = GetPointCorrespondence(matchIn.ReferencePoints,
                                          matchIn.CollectedPoints, <<>>)
    /\ UNCHANGED matchIn

----------------------------------------------------------------------------
(* Calls of a single function: the arguments are drawn in the initial state, *)
(* the call stores what the function returns and leaves in its arguments.    *)

VARIABLES
    callIn,     \* the function called and its arguments
    callOut     \* <<>> before the call, then what the function left

callVars == <<callIn, callOut>>

InitCallIdle ==
    /\ callIn = <<>>
    /\ callOut = <<>>

----------------------------------------------------------------------------
(* HL2ResearchModeController: the worker thread running DepthSensorLoop and
   the application thread calling the controller's methods. Every step of a
   thread is one access to state the threads share; a step that takes a mutex
   waits until the mutex is free. A frame is named by its timestamp, and the
   tool dictionary serialized after frame f is the sequence of one block per
   tool, a block standing for the 18 doubles of that tool. *)

\* Number of StartDepthSensorLoop calls, i.e. of worker threads created.
MaxStarts == 2
\* Number of frames the depth sensor produces.
MaxFrames == 2
\* Number of tools in the tracker's dictionary while the loop runs.
LoopTools == 2
\* Doubles serialized per tool: [id, visibleBit, 16 matrix elements].
EntriesPerTool == 18

Workers == 1..MaxStarts

\* The flagged channels of the 8-bit images and the unflagged raw ones.
ImgChannels == {"RawDepth", "Depth8Bit", "RawAB", "AB8Bit"}
FlaggedImgChannels == {"Depth8Bit", "AB8Bit"}

\* A null buffer pointer, an empty com_array.
nullptr == 0

\* Holder of a free mutex, and the application thread as a holder.
Free == 0
App == 0 - 1

VARIABLES
    m_depthSensorLoopStarted, \* the loop's run flag
    m_depthSensor,            \* "ready", "open" or "nullptr"
    m_stashSensorImgs,        \* whether the worker saves the images
    m_OutputToolPoseVector,   \* the serialized tool array, a sequence of blocks
    m_toolDictUpdated,        \* updated flag of the tool array
    m_ImgBuf,                 \* channel -> nullptr or the frame stored
    m_ImageUpdated,           \* channel -> updated flag
    m_toolDoubleVectorMutex,  \* Free or the worker holding it
    m_imgMutex,               \* Free, a worker or App
    sensorTimestamp,          \* timestamp of the sensor's newest frame, 0: none
    worker,                   \* worker -> [pc, seen, lastTimestamp, frame, stash]
    app,                      \* the application thread: [pc, copy]
    tools2worldArr,           \* array returned by the last GetTrackedToolsPoseMatrices
    tempBuffer,               \* image returned by the last image getter
    published,                \* channel -> frame of the last completed publish
    stopReturned              \* StopSensorLoop has returned

loopVars == <<m_depthSensorLoopStarted, m_depthSensor, m_stashSensorImgs,
              m_OutputToolPoseVector, m_toolDictUpdated, m_ImgBuf,
              m_ImageUpdated, m_toolDoubleVectorMutex, m_imgMutex,
              sensorTimestamp, worker, app, tools2worldArr, tempBuffer,
              published, stopReturned>>

toolChannel == <<m_OutputToolPoseVector, m_toolDictUpdated, m_toolDoubleVectorMutex>>
imgChannel == <<m_ImgBuf, m_ImageUpdated, m_imgMutex>>
returned == <<tools2worldArr, tempBuffer>>
history == <<published>>

Channels == ImgChannels \cup {"Tools"}

\* One tool's 18 doubles as serialized after frame f.
ToolBlock(f, i) == [frame |-> f, tool |-> i]

\* SerializeToolDictionary of the dictionary as it is after frame f.
SerializeToolDictionary(f) == [i \in 1..LoopTools |-> ToolBlock(f, i)]

\* Length in doubles of a serialized array.
DoubleCount(arr) == EntriesPerTool * Len(arr)

InitLoop ==
    /\ m_depthSensorLoopStarted = FALSE
    /\ m_depthSensor = "ready"
    /\ m_stashSensorImgs = FALSE
    /\ m_OutputToolPoseVector = <<>>
    /\ m_toolDictUpdated = FALSE
    /\ m_ImgBuf = [c \in ImgChannels |-> nullptr]
    /\ m_ImageUpdated = [c \in ImgChannels |-> FALSE]
    /\ m_toolDoubleVectorMutex = Free
    /\ m_imgMutex = Free
    /\ sensorTimestamp = 0
    /\ worker = [w \in Workers |-> [pc |-> "unborn", seen |-> FALSE,
                                    lastTimestamp |-> 0, frame |-> 0,
                                    stash |-> FALSE]]
    /\ app = [pc |-> "idle", copy |-> <<>>]
    /\ tools2worldArr = <<>>
    /\ tempBuffer = nullptr
    /\ published = [c \in Channels |-> 0]
    /\ stopReturned = FALSE

\* The depth sensor delivers its next frame.
SensorFrame ==
    /\ sensorTimestamp < MaxFrames
    /\ sensorTimestamp' = sensorTimestamp + 1
    /\ UNCHANGED <<trackerVars, matchVars, callVars>>
    /\ UNCHANGED <<m_depthSensorLoopStarted, m_depthSensor, m_stashSensorImgs,
                   toolChannel, imgChannel, worker, app, returned, history,
                   stopReturned>>

(* The application thread *)

\* StartDepthSensorLoop creates the next worker thread. The controller is not
\* started again once StopSensorLoop has released the sensor device.
StartDepthSensorLoop ==
    /\ app.pc = "idle"
    /\ ~stopReturned
    /\ \E w \in Workers :
        /\ worker[w].pc = "unborn"
        /\ \A v \in Workers : v < w => worker[v].pc # "unborn"
        /\ worker' = [worker EXCEPT ![w].pc = "L327"]
    /\ UNCHANGED <<trackerVars, matchVars, callVars>>
    /\ UNCHANGED <<m_depthSensorLoopStarted, m_depthSensor, m_stashSensorImgs,
                   toolChannel, imgChannel, sensorTimestamp, app, returned,
                   history, stopReturned>>

\* StopSensorLoop, line 204: the run flag is cleared.
StopSensorLoop_flag ==
    /\ app.pc = "idle"
    /\ ~stopReturned
    /\ m_depthSensorLoopStarted' = FALSE
    /\ app' = [app EXCEPT !.pc = "S206"]
    /\ UNCHANGED <<trackerVars, matchVars, callVars>>
    /\ UNCHANGED <<m_depthSensor, m_stashSensorImgs, toolChannel, imgChannel,
                   sensorTimestamp, worker, returned, history, stopReturned>>

\* StopSensorLoop, lines 206-221: the image buffers are deleted, no mutex held.
StopSensorLoop_free ==
    /\ app.pc = "S206"
    /\ m_ImgBuf' = [c \in ImgChannels |-> nullptr]
    /\ app' = [app EXCEPT !.pc = "idle"]
    /\ stopReturned' = TRUE
    /\ UNCHANGED <<trackerVars, matchVars, callVars>>
    /\ UNCHANGED <<m_depthSensorLoopStarted, m_depthSensor, m_stashSensorImgs,
                   toolChannel, m_ImageUpdated, m_imgMutex, sensorTimestamp,
                   worker, returned, history>>

ToggleDisplaySensorImages(showTextures) ==
    /\ app.pc = "idle"
    /\ showTextures # m_stashSensorImgs
    /\ m_stashSensorImgs' = showTextures
    /\ UNCHANGED <<trackerVars, matchVars, callVars>>
    /\ UNCHANGED <<m_depthSensorLoopStarted, m_depthSensor, toolChannel,
                   imgChannel, sensorTimestamp, worker, app, returned,
                   history, stopReturned>>

\* GetTrackedToolsPoseMatrices, lines 267-268: m_imgMutex is taken and the
\* array is copied as it stands.
GetTrackedToolsPoseMatrices_copy ==
    /\ app.pc = "idle"
    /\ m_imgMutex = Free
    /\ m_imgMutex' = App
    /\ app' = [pc |-> "G269", copy |-> m_OutputToolPoseVector]
    /\ UNCHANGED <<trackerVars, matchVars, callVars>>
    /\ UNCHANGED <<m_depthSensorLoopStarted, m_depthSensor, m_stashSensorImgs,
                   toolChannel, m_ImgBuf, m_ImageUpdated, sensorTimestamp,
                   worker, returned, history, stopReturned>>

\* GetTrackedToolsPoseMatrices, lines 269-270: the flag is reset, the copy
\* returned.
GetTrackedToolsPoseMatrices_reset ==
    /\ app.pc = "G269"
    /\ m_toolDictUpdated' = FALSE
    /\ m_imgMutex' = Free
    /\ tools2worldArr' = app.copy
    /\ app' = [pc |-> "idle", copy |-> <<>>]
    /\ UNCHANGED <<trackerVars, matchVars, callVars>>
    /\ UNCHANGED <<m_depthSensorLoopStarted, m_depthSensor, m_stashSensorImgs,
                   m_OutputToolPoseVector, m_toolDoubleVectorMutex, m_ImgBuf,
                   m_ImageUpdated, sensorTimestamp, worker, tempBuffer,
                   published, stopReturned>>

\* GetRawDepthImageBuffer and GetRawABImageBuffer: copy out under m_imgMutex,
\* no flag touched.
GetRawImageBuffer(c) ==
    /\ app.pc = "idle"
    /\ m_imgMutex = Free
    /\ tempBuffer' = m_ImgBuf[c]
    /\ UNCHANGED <<trackerVars, matchVars, callVars>>
    /\ UNCHANGED <<m_depthSensorLoopStarted, m_depthSensor, m_stashSensorImgs,
                   toolChannel, imgChannel, sensorTimestamp, worker, app,
                   tools2worldArr, published, stopReturned>>

\* Get8BitDepthImageBuf and Get8BitABImageBuf: a null buffer returns an empty
\* array before the flag is reset.
Get8BitImageBuf(c) ==
    /\ app.pc = "idle"
    /\ m_imgMutex = Free
    /\ tempBuffer' = m_ImgBuf[c]
    /\ m_ImageUpdated' = IF m_ImgBuf[c] = nullptr THEN m_ImageUpdated
                         ELSE [m_ImageUpdated EXCEPT ![c] = FALSE]
    /\ UNCHANGED <<trackerVars, matchVars, callVars>>
    /\ UNCHANGED <<m_depthSensorLoopStarted, m_depthSensor, m_stashSensorImgs,
                   toolChannel, m_ImgBuf, m_imgMutex, sensorTimestamp, worker,
                   app, tools2worldArr, published, stopReturned>>

GetRawDepthImageBuffer == GetRawImageBuffer("RawDepth")
GetRawABImageBuffer == GetRawImageBuffer("RawAB")
Get8BitDepthImageBuf == Get8BitImageBuf("Depth8Bit")
Get8BitABImageBuf == Get8BitImageBuf("AB8Bit")

(* The worker thread: DepthSensorLoop *)

\* Line 327, the condition: the run flag is read.
DepthSensorLoop_check(w) ==
    /\ worker[w].pc = "L327"
    /\ worker' = [worker EXCEPT ![w].pc = "L327_set",
                                ![w].seen = m_depthSensorLoopStarted]
    /\ UNCHANGED <<trackerVars, matchVars, callVars>>
    /\ UNCHANGED <<m_depthSensorLoopStarted, m_depthSensor, m_stashSensorImgs,
                   toolChannel, imgChannel, sensorTimestamp, app, returned,
                   history, stopReturned>>

\* Lines 327-328: a thread that read false sets the flag, one that read true
\* returns.
DepthSensorLoop_set(w) ==
    /\ worker[w].pc = "L327_set"
    /\ IF worker[w].seen
       THEN /\ worker' = [worker EXCEPT ![w].pc = "returned"]
            /\ UNCHANGED m_depthSensorLoopStarted
       ELSE /\ worker' = [worker EXCEPT ![w].pc = "L330"]
            /\ m_depthSensorLoopStarted' = TRUE
    /\ UNCHANGED <<trackerVars, matchVars, callVars>>
    /\ UNCHANGED <<m_depthSensor, m_stashSensorImgs, toolChannel, imgChannel,
                   sensorTimestamp, app, returned, history, stopReturned>>

\* Lines 330-351: OpenStream through m_depthSensor, lastTimestamp = 0. A null
\* m_depthSensor ends the thread with an access violation.
DepthSensorLoop_open(w) ==
    /\ worker[w].pc = "L330"
    /\ IF m_depthSensor = "nullptr"
       THEN /\ worker' = [worker EXCEPT ![w].pc = "crashed"]
            /\ UNCHANGED m_depthSensor
       ELSE /\ worker' = [worker EXCEPT ![w].pc = "L355",
                                        ![w].lastTimestamp = 0]
            /\ m_depthSensor' = "open"
    /\ UNCHANGED <<trackerVars, matchVars, callVars>>
    /\ UNCHANGED <<m_depthSensorLoopStarted, m_stashSensorImgs, toolChannel,
                   imgChannel, sensorTimestamp, app, returned, history,
                   stopReturned>>

\* Line 355: the loop condition.
DepthSensorLoop_while(w) ==
    /\ worker[w].pc = "L355"
    /\ worker' = [worker EXCEPT ![w].pc = IF m_depthSensorLoopStarted
                                          THEN "L363" ELSE "L494"]
    /\ UNCHANGED <<trackerVars, matchVars, callVars>>
    /\ UNCHANGED <<m_depthSensorLoopStarted, m_depthSensor, m_stashSensorImgs,
                   toolChannel, imgChannel, sensorTimestamp, app, returned,
                   history, stopReturned>>

\* Lines 363-380: GetNextBuffer waits for the sensor's newest frame; a frame
\* with the last timestamp seen is skipped by `continue`.
DepthSensorLoop_GetNextBuffer(w) ==
    /\ worker[w].pc = "L363"
    /\ IF m_depthSensor = "nullptr"
       THEN worker' = [worker EXCEPT ![w].pc = "crashed"]
       ELSE /\ sensorTimestamp > 0
            /\ worker' = IF sensorTimestamp = worker[w].lastTimestamp
                         THEN [worker EXCEPT ![w].pc = "L355",
                                             ![w].frame = sensorTimestamp]
                         ELSE [worker EXCEPT ![w].pc = "L408",
                                             ![w].frame = sensorTimestamp,
                                             ![w].lastTimestamp = sensorTimestamp]
    /\ UNCHANGED <<trackerVars, matchVars, callVars>>
    /\ UNCHANGED <<m_depthSensorLoopStarted, m_depthSensor, m_stashSensorImgs,
                   toolChannel, imgChannel, sensorTimestamp, app, returned,
                   history, stopReturned>>

\* Lines 408-440: a headset that cannot be located skips the frame by
\* `continue`; otherwise m_stashSensorImgs is read and the tracker processes
\* the frame.
DepthSensorLoop_process(w) ==
    /\ worker[w].pc = "L408"
    /\ \E located \in BOOLEAN :
        worker' = IF located
                  THEN [worker EXCEPT ![w].pc = "L445",
                                      ![w].stash = m_stashSensorImgs]
                  ELSE [worker EXCEPT ![w].pc = "L355"]
    /\ UNCHANGED <<trackerVars, matchVars, callVars>>
    /\ UNCHANGED <<m_depthSensorLoopStarted, m_depthSensor, m_stashSensorImgs,
                   toolChannel, imgChannel, sensorTimestamp, app, returned,
                   history, stopReturned>>

\* Line 445 and SerializeToolDictionary's clear(): m_toolDoubleVectorMutex is
\* taken and the array emptied.
DepthSensorLoop_clear(w) ==
    /\ worker[w].pc = "L445"
    /\ m_toolDoubleVectorMutex = Free
    /\ m_toolDoubleVectorMutex' = w
    /\ m_OutputToolPoseVector' = <<>>
    /\ worker' = [worker EXCEPT ![w].pc = "L446"]
    /\ UNCHANGED <<trackerVars, matchVars, callVars>>
    /\ UNCHANGED <<m_depthSensorLoopStarted, m_depthSensor, m_stashSensorImgs,
                   m_toolDictUpdated, imgChannel, sensorTimestamp, app,
                   returned, history, stopReturned>>

\* SerializeToolDictionary's loop: the next tool's 18 doubles are appended.
DepthSensorLoop_push(w) ==
    /\ worker[w].pc = "L446"
    /\ LET i == Len(m_OutputToolPoseVector) + 1
       IN /\ m_OutputToolPoseVector' =
                 Append(m_OutputToolPoseVector, ToolBlock(worker[w].frame, i))
          /\ worker' = [worker EXCEPT ![w].pc = IF i = LoopTools
                                                THEN "L447" ELSE "L446"]
    /\ UNCHANGED <<trackerVars, matchVars, callVars>>
    /\ UNCHANGED <<m_depthSensorLoopStarted, m_depthSensor, m_stashSensorImgs,
                   m_toolDictUpdated, m_toolDoubleVectorMutex, imgChannel,
                   sensorTimestamp, app, returned, history, stopReturned>>

\* Lines 447-448 (and 489-490 when no image is saved): the flag is set, the
\* mutex released.
DepthSensorLoop_publish(w) ==
    /\ worker[w].pc = "L447"
    /\ m_toolDictUpdated' = TRUE
    /\ m_toolDoubleVectorMutex' = Free
    /\ published' = [published EXCEPT !["Tools"] = worker[w].frame]
    /\ worker' = [worker EXCEPT ![w].pc = IF worker[w].stash
                                          THEN "L463" ELSE "L355"]
    /\ UNCHANGED <<trackerVars, matchVars, callVars>>
    /\ UNCHANGED <<m_depthSensorLoopStarted, m_depthSensor, m_stashSensorImgs,
                   m_OutputToolPoseVector, imgChannel, sensorTimestamp, app,
                   returned, stopReturned>>

\* Lines 463-479: m_imgMutex is taken, each buffer allocated if null and
\* filled with the frame's image.
DepthSensorLoop_save(w) ==
    /\ worker[w].pc = "L463"
    /\ m_imgMutex = Free
    /\ m_imgMutex' = w
    /\ m_ImgBuf' = [c \in ImgChannels |-> worker[w].frame]
    /\ worker' = [worker EXCEPT ![w].pc = "L481"]
    /\ UNCHANGED <<trackerVars, matchVars, callVars>>
    /\ UNCHANGED <<m_depthSensorLoopStarted, m_depthSensor, m_stashSensorImgs,
                   toolChannel, m_ImageUpdated, sensorTimestamp, app,
                   returned, history, stopReturned>>

\* Lines 481-490: the flags of the two 8-bit images are set, the mutex and
\* the frame released.
DepthSensorLoop_flags(w) ==
    /\ worker[w].pc = "L481"
    /\ m_ImageUpdated' = [c \in ImgChannels |->
                             IF c \in FlaggedImgChannels THEN TRUE
                             ELSE m_ImageUpdated[c]]
    /\ m_imgMutex' = Free
    /\ published' = [c \in Channels |->
                        IF c \in ImgChannels THEN worker[w].frame
                        ELSE published[c]]
    /\ worker' = [worker EXCEPT ![w].pc = "L355"]
    /\ UNCHANGED <<trackerVars, matchVars, callVars>>
    /\ UNCHANGED <<m_depthSensorLoopStarted, m_depthSensor, m_stashSensorImgs,
                   toolChannel, m_ImgBuf, sensorTimestamp, app, returned,
                   stopReturned>>

\* Lines 494-496: the stream is closed and m_depthSensor released and nulled.
DepthSensorLoop_close(w) ==
    /\ worker[w].pc = "L494"
    /\ m_depthSensor' = "nullptr"
    /\ worker' = [worker EXCEPT ![w].pc = "done"]
    /\ UNCHANGED <<trackerVars, matchVars, callVars>>
    /\ UNCHANGED <<m_depthSensorLoopStarted, m_stashSensorImgs, toolChannel,
                   imgChannel, sensorTimestamp, app, returned, history,
                   stopReturned>>

DepthSensorLoop(w) ==
    \/ DepthSensorLoop_check(w)
    \/ DepthSensorLoop_set(w)
    \/ DepthSensorLoop_open(w)
    \/ DepthSensorLoop_while(w)
    \/ DepthSensorLoop_GetNextBuffer(w)
    \/ DepthSensorLoop_process(w)
    \/ DepthSensorLoop_clear(w)
    \/ DepthSensorLoop_push(w)
    \/ DepthSensorLoop_publish(w)
    \/ DepthSensorLoop_save(w)
    \/ DepthSensorLoop_flags(w)
    \/ DepthSensorLoop_close(w)

----------------------------------------------------------------------------
(* Specifications *)

vars == <<trackerVars, matchVars, callVars, loopVars>>

NextTracker ==
    \/ SetToolList /\ UNCHANGED <<matchVars, callVars, loopVars>>
    \/ Frame /\ UNCHANGED <<matchVars, callVars, loopVars>>

InitSpecTracker == InitTracker /\ InitMatchIdle /\ InitCallIdle /\ InitLoop

SpecTracker == InitSpecTracker /\ [][NextTracker]_vars

NextMatch == CallGetPointCorrespondence /\ UNCHANGED <<trackerVars, callVars, loopVars>>

InitSpecMatch == InitTracker /\ InitMatch /\ InitCallIdle /\ InitLoop

SpecMatch == InitSpecMatch /\ [][NextMatch]_vars

NextLoop ==
    \/ SensorFrame
    \/ StartDepthSensorLoop
    \/ StopSensorLoop_flag
    \/ StopSensorLoop_free
    \/ \E showTextures \in BOOLEAN : ToggleDisplaySensorImages(showTextures)
    \/ GetTrackedToolsPoseMatrices_copy
    \/ GetTrackedToolsPoseMatrices_reset
    \/ GetRawDepthImageBuffer
    \/ GetRawABImageBuffer
    \/ Get8BitDepthImageBuf
    \/ Get8BitABImageBuf
    \/ \E w \in Workers : DepthSensorLoop(w)

InitSpecLoop == InitTracker /\ InitMatchIdle /\ InitCallIdle /\ InitLoop

SpecLoop == InitSpecLoop /\ [][NextLoop]_vars

----------------------------------------------------------------------------
(* Claims about GetPointCorrespondence (SpecMatch) *)

Called == matchOut # <<>>

\* candidate list left by the pruning step for reference point k (k = 2 is
\* the first step)
CandidatesAfter(k, ref, col) ==
    MatchLoop(2, CreateIndexList(<<>>, Len(col)), SubSeq(ref, 1, k), col)

\* no two collected points are as far apart as the first two reference points
NoPairAtFirstDistance(ref, col) ==
    \A i, j \in 1..Len(col) :
        i # j => Abs(Norm(col[i], col[j]) - Norm(ref[1], ref[2])) > THRESH_FOR_DISTANCE

Fails(out) == out.ret = FALSE /\ out.CorrespondenceList = <<>>

\* C1: GetPointCorrespondence returns false with an empty candidate list
\* whenever the pruning step of some reference point leaves no candidate, and
\* in particular whenever no pair of collected points matches the distance of
\* the first two reference points.
C1_FailsWhenPruningLeavesNothing ==
    Called =>
        LET ref == matchOut.ReferencePoints
            col == matchOut.CollectedPoints
        IN (Len(ref) >= 3 /\ Len(col) >= 3) =>
              /\ (\E k \in 2..Len(ref) : CandidatesAfter(k, ref, col) = <<>>)
                     => Fails(matchOut)
              /\ NoPairAtFirstDistance(ref, col) => Fails(matchOut)

\* C4: every sequence returned with true holds one index per de-duplicated
\* reference point, the indices are pairwise distinct positions of the
\* collected list, and consecutive distances agree with the reference within
\* THRESH_FOR_DISTANCE.
C4_ReturnedSequencesAreAssignments ==
    (Called /\ matchOut.ret) =>
        LET ref == matchOut.ReferencePoints
            col == matchOut.CollectedPoints
        IN \A c \in 1..Len(matchOut.CorrespondenceList) :
              LET seq == matchOut.CorrespondenceList[c]
              IN /\ Len(seq) = Len(ref)
                 /\ \A i \in 1..Len(seq) : seq[i] \in 0..(Len(col) - 1)
                 /\ \A i, j \in 1..Len(seq) : i # j => seq[i] # seq[j]
                 /\ \A i \in 2..Len(seq) :
                        i <= Len(ref) =>
                            Abs(Norm(col[seq[i] + 1], col[seq[i - 1] + 1])
                                - Norm(ref[i], ref[i - 1])) <= THRESH_FOR_DISTANCE

----------------------------------------------------------------------------
(* Claims about the per-frame update (SpecTracker) *)

FrameProcessed == lastCall = "ProcessLatestFrames"

Tool(k) == m_ToolDictionary[k]

\* C2: after a frame every tool that was not matched is invisible, has the
\* identity pose and empty observed lists.
C2_UnmatchedToolIsReset ==
    FrameProcessed =>
        \A k \in DOMAIN m_ToolDictionary :
            ~Tool(k).VisibleToHoloLens =>
                /\ Tool(k).PoseMatrix_HoloWorld = Identity
                /\ Tool(k).ObservedPoints_World = <<>>
                /\ Tool(k).ObservedPoints_Depth = <<>>
                /\ Tool(k).ObservedImgKeypoints = <<>>

\* C3: for every visible tool and every index i the world point, the depth
\* point and the pixel at i are those of one validated blob of the frame.
C3_ObservedListsCoIndexed ==
    \A k \in DOMAIN m_ToolDictionary :
        Tool(k).VisibleToHoloLens =>
            \A i \in 1..Len(Tool(k).ObservedPoints_World) :
                \E j \in 1..Len(frameBlobs) :
                    /\ frameBlobs[j].WorldLocation = Tool(k).ObservedPoints_World[i]
                    /\ frameBlobs[j].DepthLocation = Tool(k).ObservedPoints_Depth[i]
                    /\ ToPoint2i(frameBlobs[j].PixelCoordinate)
                           = Tool(k).ObservedImgKeypoints[i]

\* the blobs of the frame from which the tool under key k holds a world
\* point, a depth point or a pixel
BlobsUsed(k) ==
    {j \in 1..Len(frameBlobs) :
        \/ frameBlobs[j].WorldLocation \in Range(Tool(k).ObservedPoints_World)
        \/ frameBlobs[j].DepthLocation \in Range(Tool(k).ObservedPoints_Depth)
        \/ ToPoint2i(frameBlobs[j].PixelCoordinate) \in Range(Tool(k).ObservedImgKeypoints)}

\* C5: no validated blob is assigned to two tools in one frame: the blobs a
\* visible tool claimed are gone from the shared pool, and two visible tools
\* use disjoint sets of blobs.
C5_NoBlobAssignedTwice ==
    FrameProcessed =>
        /\ \A k \in DOMAIN m_ToolDictionary :
               Tool(k).VisibleToHoloLens =>
                   \A j \in BlobsUsed(k) : frameBlobs[j] \notin Range(m_cache_frameBlobInfo)
        /\ \A k1, k2 \in DOMAIN m_ToolDictionary :
               (k1 # k2 /\ Tool(k1).VisibleToHoloLens /\ Tool(k2).VisibleToHoloLens)
                   => BlobsUsed(k1) \cap BlobsUsed(k2) = {}

\* what the tool under key k gets when it is matched against all blobs of the
\* frame, before any other tool has claimed one
AloneMatch(k) ==
    GetPointCorrespondence(Tool(k).GeometryPoints,
                           [j \in 1..Len(frameBlobs) |-> frameBlobs[j].WorldLocation],
                           <<>>)

CouldMatchAlone(k) ==
    /\ AloneMatch(k).ret
    /\ Len(AloneMatch(k).CorrespondenceList[1]) = Len(AloneMatch(k).ReferencePoints)

\* the tool under key k had first claim on the blobs of the frame
HasFirstClaim(k) ==
    /\ Tool(k).VisibleToHoloLens <=> CouldMatchAlone(k)
    /\ CouldMatchAlone(k) =>
           LET m == AloneMatch(k)
               seq == m.CorrespondenceList[1]
           IN Tool(k).ObservedPoints_World
                  = [i \in 1..Len(seq) |-> m.CollectedPoints[seq[i] + 1]]

\* C6 as stated: the tool inserted first at configuration time has first
\* claim on the blobs of every frame.
C6_FirstInsertedHasFirstClaim ==
    (FrameProcessed /\ configOrder # <<>>) => HasFirstClaim(configOrder[1])

\* C6: the per-frame update visits tools in ascending id order, whatever the
\* order of insertion: the tool with the smallest id has first claim on the
\* blobs of every frame.
C6_SmallestIdHasFirstClaim ==
    (FrameProcessed /\ DOMAIN m_ToolDictionary # {}) =>
        HasFirstClaim(SortedSeq(DOMAIN m_ToolDictionary)[1])

\* a frame in which the tool inserted second, with the smaller id, took the
\* blobs that the tool inserted first could have matched
C6_Witness ==
    /\ FrameProcessed
    /\ configOrder = <<2, 1>>
    /\ Tool(1).VisibleToHoloLens
    /\ ~Tool(2).VisibleToHoloLens
    /\ CouldMatchAlone(2)

\* C7: every tool's geometry equals the list it was configured with.
C7_GeometryImmutable ==
    \A k \in DOMAIN m_ToolDictionary :
        Tool(k).GeometryPoints = configGeometry[k]

----------------------------------------------------------------------------
(* Claims about the sensor loop and its output channels *)

\* An array a consumer may be handed: empty, or the complete array (one block
\* of 18 doubles per tool) serialized after one frame.
IsSnapshot(arr) ==
    \/ arr = <<>>
    \/ \E f \in 1..MaxFrames :
        /\ arr = SerializeToolDictionary(f)
        /\ DoubleCount(arr) = EntriesPerTool * LoopTools

\* C8: the consumer's copy-out in GetTrackedToolsPoseMatrices never overlaps
\* the worker's rewrite of the serialized tool array, so every array copied
\* and returned is empty or the complete array of one published frame.
C8_ReturnedArrayIsOneFrame ==
    /\ IsSnapshot(app.copy)
    /\ IsSnapshot(tools2worldArr)

\* The value a read of the tool channel has to deliver: the array of the last
\* completed publish.
LatestToolArray ==
    IF published["Tools"] = 0 THEN <<>>
    ELSE SerializeToolDictionary(published["Tools"])

\* C9: every flagged channel is a single-slot mailbox. A read that begins
\* after the worker's publishes takes the value published last, and in the
\* state right after a read has returned the channel's updated flag is false.
C9_SingleSlotMailbox ==
    [][/\ GetTrackedToolsPoseMatrices_copy => app'.copy = LatestToolArray
       /\ GetTrackedToolsPoseMatrices_reset => ~m_toolDictUpdated'
       /\ \A c \in FlaggedImgChannels :
            Get8BitImageBuf(c) => /\ tempBuffer' = published[c]
                                  /\ ~m_ImageUpdated'[c]]_vars

\* Worker w passes the loop condition and begins a new frame.
StartsFrame(w) == worker[w].pc = "L355" /\ worker'[w].pc = "L363"

\* C10: once StopSensorLoop has returned, no worker begins another frame,
\* whatever the interleaving of StartDepthSensorLoop, the worker's start-up
\* and StopSensorLoop.
C10_NoNewFrameAfterStop ==
    [][stopReturned => \A w \in Workers : ~StartsFrame(w)]_vars

\* A worker is inside the block of lines 463-483, between writing the image
\* buffers and setting their flags.
SavingImages(w) == worker[w].pc = "L481"

\* C11: the image buffers and the serialized tool array are allocated,
\* written and freed by steps of a worker only, and while a worker is saving
\* the images of a frame no buffer it has just written is freed under it.
C11_BuffersMutatedByWorkerOnly ==
    [][/\ (m_ImgBuf' # m_ImgBuf \/ m_OutputToolPoseVector' # m_OutputToolPoseVector)
            => \E w \in Workers : DepthSensorLoop(w)
       /\ \A w \in Workers : \A c \in ImgChannels :
            SavingImages(w) => m_ImgBuf[c] # nullptr]_vars

----------------------------------------------------------------------------
(* Loading a tool configuration: SetToolListFromString (delimited text) and
   FillToolDictionaryFromJSONString (JSON). A piece of text that is to be
   converted to a number is a record saying whether it is a numeral and, if
   so, of which value. *)

\* Number of entries of a configuration handed to a loader.
MaxLoadEntries == 3

Numeral(v) == [numeric |-> TRUE, value |-> v]
NotANumber == [numeric |-> FALSE, value |-> 0]

\* std::stoi and std::stod throw std::invalid_argument on text that does not
\* begin with a numeral.
Throws(text) == ~text.numeric

Numerals(values) == [i \in 1..Len(values) |-> Numeral(values[i])]
Values(texts) == [i \in 1..Len(texts) |-> texts[i].value]

\* Records of the delimited form: two well formed, one with text for the id,
\* one with text for a coordinate.
DelimitedEntries ==
    {Numerals(EntryOf(1, <<0, 300, 700>>)),
     Numerals(EntryOf(2, <<0, 400, 900>>)),
     <<NotANumber>> \o Numerals(<<0, 0, 0, 300, 0, 0, 700, 0, 0>>),
     Numerals(<<3, 0, 0, 0>>) \o <<Numeral(300), NotANumber, Numeral(0)>>}

\* A record of the delimited form as the format defines it: an id and one or
\* more complete triplets, every piece a numeral.
WellFormedEntry(toolTripletsStr) ==
    /\ Len(toolTripletsStr) >= 4
    /\ (Len(toolTripletsStr) - 1) % 3 = 0
    /\ \A i \in 1..Len(toolTripletsStr) : toolTripletsStr[i].numeric

\* The pieces one iteration of SetToolListFromString converts: the id and the
\* coordinates of the (size - 1) / 3 complete triplets.
ConvertedPieces(toolTripletsStr) ==
    1..(1 + 3 * ((Len(toolTripletsStr) - 1) \div 3))

\* SetToolListFromString on records of text: nothing catches what std::stoi
\* and std::stod throw, so the first record with a converted piece that is no
\* numeral ends the call with the exception.
RECURSIVE SetToolListFromText(_, _, _)
SetToolListFromText(delimitedMsg, toolDictionary, pose) ==
    IF delimitedMsg = <<>>
    THEN [raised |-> FALSE, toolDictionary |-> toolDictionary]
    ELSE LET toolTripletsStr == Head(delimitedMsg)
         IN IF \E i \in ConvertedPieces(toolTripletsStr) : Throws(toolTripletsStr[i])
            THEN [raised |-> TRUE, toolDictionary |-> toolDictionary]
            ELSE SetToolListFromText(
                     Tail(delimitedMsg),
                     SetToolListFromString(<<Values(toolTripletsStr)>>,
                                           toolDictionary, pose),
                     pose)

\* An element of the "tools" array. isObject: the value is a JSON object;
\* id.type: the JsonValueType of member "id", "Null" when the member is
\* absent; hasCoordinates: member "coordinates" is present; coordinates: its
\* elements, each a sequence of strings.
JsonTool(isObject, idType, idValue, hasCoordinates, coordinates) ==
    [isObject |-> isObject, id |-> [type |-> idType, value |-> idValue],
     hasCoordinates |-> hasCoordinates, coordinates |-> coordinates]

\* "coordinates" of a tool with markers at the given x coordinates.
JsonCoordinates(geometry) ==
    [i \in 1..Len(geometry) |-> Numerals(<<geometry[i], 0, 0>>)]

\* Elements of the JSON form: two well formed, then an id that is a string,
\* no "coordinates", a triplet of two, a coordinate that is no numeral, an
\* element that is no object, an object without "id".
JsonTools ==
    {JsonTool(TRUE, "Number", 1, TRUE, JsonCoordinates(<<0, 300, 700>>)),
     JsonTool(TRUE, "Number", 2, TRUE, JsonCoordinates(<<0, 400, 900>>)),
     JsonTool(TRUE, "String", 3, TRUE, JsonCoordinates(<<0, 300, 700>>)),
     JsonTool(TRUE, "Number", 4, FALSE, <<>>),
     JsonTool(TRUE, "Number", 5, TRUE, <<Numerals(<<0, 0, 0>>), Numerals(<<300, 0>>)>>),
     JsonTool(TRUE, "Number", 6, TRUE,
              <<Numerals(<<0, 0, 0>>), <<Numeral(300), NotANumber, Numeral(0)>>>>),
     JsonTool(FALSE, "Null", 0, FALSE, <<>>),
     JsonTool(TRUE, "Null", 0, TRUE, JsonCoordinates(<<0, 300, 700>>))}

\* ParseAndFillCoordinatesList: false without "coordinates", for an element
\* that has not 3 members and for a member std::stod throws on (caught).
ParseAndFillCoordinatesList(toolObject) ==
    /\ toolObject.hasCoordinates
    /\ \A i \in 1..Len(toolObject.coordinates) :
        /\ Len(toolObject.coordinates[i]) = 3
        /\ \A j \in 1..3 : ~Throws(toolObject.coordinates[i][j])

\* GetId: the number cast to uint8_t, -1 for an id that is no number.
GetId(toolObject) ==
    IF toolObject.id.type = "Number" THEN toolObject.id.value % UINT8_MOD
    ELSE 0 - 1

\* An element of the JSON form as the format defines it.
WellFormedJsonTool(toolValue) ==
    /\ toolValue.isObject
    /\ toolValue.id.type = "Number"
    /\ ParseAndFillCoordinatesList(toolValue)
    /\ Len(toolValue.coordinates) >= 1

\* FillToolDictionaryFromJSONString from the loop over the "tools" array on.
\* GetObject throws for an element that is no object; GetId calls ValueType
\* through the null IJsonValue that GetNamedValue returns for an absent "id",
\* which ends the call with an access violation.
RECURSIVE FillToolDictionaryFromJSONString(_, _, _)
FillToolDictionaryFromJSONString(toolArray, toolDictionary, pose) ==
    IF toolArray = <<>>
    THEN [raised |-> FALSE, toolDictionary |-> toolDictionary]
    ELSE LET toolValue == Head(toolArray)
             idx == GetId(toolValue)
             emptyTool == [TrackedTool(pose) EXCEPT
                              !.ID = idx,
                              !.GeometryPoints =
                                  [i \in 1..Len(toolValue.coordinates) |->
                                      toolValue.coordinates[i][1].value]]
             next == IF idx \in DOMAIN toolDictionary THEN toolDictionary
                     ELSE [k \in DOMAIN toolDictionary \cup {idx} |->
                              IF k = idx THEN emptyTool ELSE toolDictionary[k]]
         IN IF ~toolValue.isObject \/ toolValue.id.type = "Null"
            THEN [raised |-> TRUE, toolDictionary |-> toolDictionary]
            ELSE IF idx < 0 \/ ~ParseAndFillCoordinatesList(toolValue)
            THEN FillToolDictionaryFromJSONString(Tail(toolArray), toolDictionary, pose)
            ELSE FillToolDictionaryFromJSONString(Tail(toolArray), next, pose)

\* The configurations handed to a loader.
LoaderInputs ==
    {[fn |-> "SetToolListFromString", entries |-> e] :
         e \in SeqsUpTo(DelimitedEntries, MaxLoadEntries)}
    \cup {[fn |-> "FillToolDictionaryFromJSONString", entries |-> e] :
              e \in SeqsUpTo(JsonTools, MaxLoadEntries)}

InitLoad ==
    /\ callIn \in LoaderInputs
    /\ callOut = <<>>

\* Holo2IRTracker(encodedString, JSONString): the loader of the given form
\* fills the dictionary of the new tracker.
CallLoader ==
    /\ callOut = <<>>
    /\ \E pose \in UninitialisedPoses :
        LET out == IF callIn.fn = "SetToolListFromString"
                   THEN SetToolListFromText(callIn.entries, <<>>, pose)
                   ELSE FillToolDictionaryFromJSONString(callIn.entries, <<>>, pose)
        IN callOut' = [raised |-> out.raised,
                       toolDictionary |-> out.toolDictionary, pose |-> pose]
    /\ UNCHANGED <<callIn, trackerVars, matchVars, loopVars>>

NextLoad == CallLoader

InitSpecLoad == InitTracker /\ InitMatchIdle /\ InitLoad /\ InitLoop

SpecLoad == InitSpecLoad /\ [][NextLoad]_vars

\* What a loader has to leave: the dictionary filled from the well-formed
\* entries of the configuration alone.
LoadedFromWellFormed(in, pose) ==
    IF in.fn = "SetToolListFromString"
    THEN SetToolListFromText(SelectSeq(in.entries, WellFormedEntry), <<>>, pose).toolDictionary
    ELSE FillToolDictionaryFromJSONString(
             SelectSeq(in.entries, WellFormedJsonTool), <<>>, pose).toolDictionary

LoaderCalled == callOut # <<>>

\* C12: a loader, of the delimited form and of the JSON form alike, raises no
\* error and leaves every well-formed entry of the configuration loaded,
\* whatever malformed entries stand before or after it.
C12_MalformedEntrySkipped ==
    LoaderCalled =>
        /\ ~callOut.raised
        /\ callOut.toolDictionary = LoadedFromWellFormed(callIn, callOut.pose)

----------------------------------------------------------------------------
(* Serializing the tool dictionary: GetSerializedToolDict *)

\* Number of tools of a dictionary handed to the serializer.
MaxSerializedTools == 2

\* The Eigen::Matrix4d of a pose on the marker axis: rows and columns 0..3,
\* the rotation block turning the axis by r (a half turn for r = -1), the
\* translation t in column 3.
Matrix4d(pose) ==
    [row \in 0..3 |-> [col \in 0..3 |->
        IF row = col THEN (IF row <= 1 THEN pose.r ELSE 1)
        ELSE IF row = 0 /\ col = 3 THEN pose.t
        ELSE 0]]

\* The 16 coefficients read in row-major order.
RowMajorData(pose) ==
    [k \in 1..16 |-> Matrix4d(pose)[(k - 1) \div 4][(k - 1) % 4]]

\* PoseMatrix_HoloWorld.data(): the 16 coefficients as Eigen stores them,
\* column after column.
PoseMatrixData(pose) ==
    [k \in 1..16 |-> Matrix4d(pose)[(k - 1) % 4][(k - 1) \div 4]]

\* The loop of SerializeToolDictionary over the tools in map order.
RECURSIVE SerializeTools(_, _, _)
SerializeTools(keys, toolDictionary, out_encodedDoubleArray) ==
    IF keys = <<>> THEN out_encodedDoubleArray
    ELSE LET tool == toolDictionary[Head(keys)]
         IN SerializeTools(
                Tail(keys), toolDictionary,
                out_encodedDoubleArray
                    \o <<tool.ID, IF tool.VisibleToHoloLens THEN 1 ELSE 0>>
                    \o PoseMatrixData(tool.PoseMatrix_HoloWorld))

\* GetSerializedToolDict: the array is cleared, then filled tool by tool.
GetSerializedToolDict(toolDictionary, out_encodedDoubleArray) ==
    SerializeTools(DictionaryOrder(toolDictionary), toolDictionary, <<>>)

\* Poses a tool of the dictionary may hold.
SerializedPoses == {Identity, [r |-> 1, t |-> 300], [r |-> 0 - 1, t |-> 4242]}

\* The tools a dictionary may hold under id k.
ToolsOfId(k) ==
    {[TrackedTool(pose) EXCEPT !.ID = k, !.VisibleToHoloLens = visible] :
        pose \in SerializedPoses, visible \in BOOLEAN}

\* The dictionaries of up to MaxSerializedTools tools with ids of 1..3.
SerializedDictionaries ==
    UNION {{d \in [K -> UNION {ToolsOfId(k) : k \in K}] :
                \A k \in K : d[k].ID = k} :
           K \in {S \in SUBSET {1, 2, 3} : Cardinality(S) <= MaxSerializedTools}}

\* What the output array may hold before the call.
PreviousContents ==
    {<<>>, <<7, 1>> \o PoseMatrixData(Identity)}

InitSerialize ==
    /\ callIn \in [fn : {"GetSerializedToolDict"},
                   toolDictionary : SerializedDictionaries,
                   out_encodedDoubleArray : PreviousContents]
    /\ callOut = <<>>

CallGetSerializedToolDict ==
    /\ callOut = <<>>
    /\ callOut' = [out_encodedDoubleArray |->
                      GetSerializedToolDict(callIn.toolDictionary,
                                            callIn.out_encodedDoubleArray)]
    /\ UNCHANGED <<callIn, trackerVars, matchVars, loopVars>>

NextSerialize == CallGetSerializedToolDict

InitSpecSerialize == InitTracker /\ InitMatchIdle /\ InitSerialize /\ InitLoop

SpecSerialize == InitSpecSerialize /\ [][NextSerialize]_vars

Serialized == callOut # <<>>

\* C13: the array holds 18 numbers per tool and nothing else, the tools in
\* the order of the dictionary; a tool's block is its id, 1 or 0 for visible
\* or not, and the coefficient of row r and column c of its pose at place
\* 4c + r of the 16 that follow.
C13_EighteenPerToolColumnMajor ==
    Serialized =>
        LET dict == callIn.toolDictionary
            order == DictionaryOrder(dict)
            out == callOut.out_encodedDoubleArray
        IN /\ Len(out) = EntriesPerTool * Cardinality(DOMAIN dict)
           /\ \A n \in 1..Len(order) :
                LET tool == dict[order[n]]
                    base == EntriesPerTool * (n - 1)
                IN /\ out[base + 1] = tool.ID
                   /\ out[base + 2] = (IF tool.VisibleToHoloLens THEN 1 ELSE 0)
                   /\ \A r \in 0..3 : \A c \in 0..3 :
                        out[base + 3 + 4 * c + r] =
                            Matrix4d(tool.PoseMatrix_HoloWorld)[r][c]

\* Two tools, one of them visible with a translated pose, serialized into an
\* array that held other numbers.
C13_Witness ==
    /\ Serialized
    /\ Cardinality(DOMAIN callIn.toolDictionary) = 2
    /\ callIn.out_encodedDoubleArray # <<>>
    /\ \E k \in DOMAIN callIn.toolDictionary :
        /\ callIn.toolDictionary[k].VisibleToHoloLens
        /\ callIn.toolDictionary[k].PoseMatrix_HoloWorld.t # 0
    /\ Len(callOut.out_encodedDoubleArray) = 2 * EntriesPerTool

----------------------------------------------------------------------------
(* Further claims about the tool dictionary *)

\* C14: in every state the frames lead to, a tool whose visibility flag is
\* true holds as many observed world points, observed depth points and
\* observed pixels as it holds geometry points.
C14_VisibleToolListsSameLength ==
    \A k \in DOMAIN m_ToolDictionary :
        Tool(k).VisibleToHoloLens =>
            /\ Len(Tool(k).ObservedPoints_World) = Len(Tool(k).GeometryPoints)
            /\ Len(Tool(k).ObservedPoints_Depth) = Len(Tool(k).GeometryPoints)
            /\ Len(Tool(k).ObservedImgKeypoints) = Len(Tool(k).GeometryPoints)

\* A frame has left one tool visible and another one not.
C14_Witness ==
    /\ FrameProcessed
    /\ \E k \in DOMAIN m_ToolDictionary :
        Tool(k).VisibleToHoloLens /\ Len(Tool(k).GeometryPoints) >= 3
    /\ \E k \in DOMAIN m_ToolDictionary : ~Tool(k).VisibleToHoloLens

----------------------------------------------------------------------------
(* ImageProc::BilinearInterpolation. A coordinate of a cv::Point2f is held in
   units of 1/SubPixel pixel; a float read from the image is held in units of
   1/(SubPixel * SubPixel), which the products of two fractional offsets
   need. The values are small enough to be exact as floats. *)

\* Steps of a coordinate per pixel.
SubPixel == 2

\* A float value v in the units in which image values are held.
Float(v) == v * SubPixel * SubPixel

\* The value -1 that is returned for a point that cannot be read.
InvalidValue == Float(0 - 1)

\* static_cast<int> of a float: the fraction is cut off, towards zero.
StaticCastInt(c) ==
    IF c >= 0 THEN c \div SubPixel ELSE 0 - ((0 - c) \div SubPixel)

Min(a, b) == IF a < b THEN a ELSE b

\* A cv::Mat of one channel: its type, and its rows from the top, each the
\* samples from the left. An empty Mat has no rows.
Mat(type, data) ==
    [type |-> type, rows |-> Len(data),
     cols |-> IF data = <<>> THEN 0 ELSE Len(data[1]), data |-> data]

\* image.at<T>(y, x)
At(image, y, x) == image.data[y + 1][x + 1]

BilinearInterpolation(image, point) ==
    IF image.rows = 0 \/ image.cols = 0 THEN InvalidValue
    ELSE LET x == point.x
             y == point.y
             x0 == StaticCastInt(x)
             y0 == StaticCastInt(y)
         IN IF x0 < 0 \/ y0 < 0 \/ x >= image.cols * SubPixel
                  \/ y >= image.rows * SubPixel
            THEN InvalidValue
            ELSE LET x1 == Min(x0 + 1, image.cols - 1)
                     y1 == Min(y0 + 1, image.rows - 1)
                     dx == x - x0 * SubPixel
                     dy == y - y0 * SubPixel
                 IN IF image.type \notin {"CV_8UC1", "CV_16UC1"} THEN InvalidValue
                    ELSE At(image, y0, x0) * (SubPixel - dx) * (SubPixel - dy)
                         + At(image, y0, x1) * dx * (SubPixel - dy)
                         + At(image, y1, x0) * (SubPixel - dx) * dy
                         + At(image, y1, x1) * dx * dy

\* Images that are sampled: a 16-bit depth image, an 8-bit image, an image
\* of a type that is not read, and an empty image.
DepthImg16bit == Mat("CV_16UC1", << <<0, 4090, 1000>>, <<4091, 1000, 2000>> >>)

Img8bit == Mat("CV_8UC1", << <<0, 250, 100>>, <<255, 100, 200>> >>)

SampledImages ==
    {DepthImg16bit, Img8bit, Mat("CV_32FC1", DepthImg16bit.data),
     Mat("CV_16UC1", <<>>)}

\* The points at which an image is sampled: from a pixel and a half outside
\* the top left corner to beyond the bottom right corner.
SampledPoints == [x : (0 - 3) .. 7, y : (0 - 3) .. 5]

InitInterpolate ==
    /\ callIn \in [fn : {"BilinearInterpolation"}, image : SampledImages,
                   point : SampledPoints]
    /\ callOut = <<>>

CallBilinearInterpolation ==
    /\ callIn # <<>>
    /\ callIn.fn = "BilinearInterpolation"
    /\ callOut = <<>>
    /\ callOut' = [value |-> BilinearInterpolation(callIn.image, callIn.point)]
    /\ UNCHANGED <<callIn, trackerVars, matchVars, loopVars>>

NextInterpolate == CallBilinearInterpolation

InitSpecInterpolate == InitTracker /\ InitMatchIdle /\ InitInterpolate /\ InitLoop

SpecInterpolate == InitSpecInterpolate /\ [][NextInterpolate]_vars

\* The image is of a type that is read and is not empty.
Readable(image) == image.type \in {"CV_8UC1", "CV_16UC1"} /\ image.rows > 0

OutOfBounds(image, point) ==
    \/ point.x < 0
    \/ point.y < 0
    \/ point.x >= image.cols * SubPixel
    \/ point.y >= image.rows * SubPixel

Interpolated == callOut # <<>> /\ callIn.fn = "BilinearInterpolation"

\* C16: BilinearInterpolation yields the sentinel -1 for every coordinate
\* outside the image (x < 0, y < 0, x >= width, y >= height, a fractional
\* coordinate just outside an edge included) and, for a coordinate inside
\* a readable image, the four neighbouring samples weighted by the
\* fractional offsets: at an integer coordinate the sample itself.
C16_SentinelOutsideSampleInside ==
    Interpolated /\ Readable(callIn.image) =>
        LET image == callIn.image
            point == callIn.point
        IN /\ OutOfBounds(image, point) => callOut.value = InvalidValue
           /\ ( /\ ~OutOfBounds(image, point)
                /\ point.x % SubPixel = 0
                /\ point.y % SubPixel = 0 )
              => callOut.value
                   = Float(At(image, point.y \div SubPixel, point.x \div SubPixel))

----------------------------------------------------------------------------
(* ImageProc::ValidateBlobs3D. The unmap function belongs to the sensor: it
   is held as the set of pixel locations for which it returns false, or as
   null. A point of the depth camera is held as the ray through the unit
   plane and the range along it, a point of the world as the transform and
   the point it is applied to. *)

MaxCandidates == 3

\* The principal point of the unit plane, in the units of a pixel location.
PrincipalPoint == [x |-> 2, y |-> 1]

UnmapFunction(null, bad) == [null |-> null, bad |-> bad]

\* MapImagePointToCameraUnitPlane(uv, xy): the value returned and xy.
MapImagePointToCameraUnitPlane(unmap, uv) ==
    [ok |-> uv \notin unmap.bad,
     xy |-> [x |-> uv.x - PrincipalPoint.x, y |-> uv.y - PrincipalPoint.y]]

\* if (depthVal == 0 || depthVal > 4090) continue;
DepthRejectedFrom4090(depthVal) == depthVal = Float(0) \/ depthVal >= Float(4090)

DepthRejected(depthVal) == depthVal = Float(0) \/ depthVal > Float(4090)

\* if (outBlobInfo.size() > 0) outBlobInfo.clear();
KeptOutput(outBlobInfo) == outBlobInfo

ClearedOutput(outBlobInfo) == IF Len(outBlobInfo) > 0 THEN <<>> ELSE outBlobInfo

InfraBlobInfo(pixelLocation, xy, depthVal, inDepth2World) ==
    LET pointInDepth == [ray |-> xy, range |-> depthVal]
    IN [PixelCoordinate |-> pixelLocation,
        DepthLocation |-> pointInDepth,
        WorldLocation |-> [transform |-> inDepth2World, point |-> pointInDepth]]

RECURSIVE ValidateEach(_, _, _, _, _)
ValidateEach(inDepthImg, inDepth2World, inBlobPixels2D, unmap, outBlobInfo) ==
    IF inBlobPixels2D = <<>> THEN outBlobInfo
    ELSE LET pixelLocation == Head(inBlobPixels2D)
             depthVal == BilinearInterpolation(inDepthImg, pixelLocation)
             unmapped == MapImagePointToCameraUnitPlane(unmap, pixelLocation)
             out == IF DepthRejected(depthVal) THEN outBlobInfo
                    ELSE IF ~unmapped.ok THEN outBlobInfo
                    ELSE Append(outBlobInfo,
                                InfraBlobInfo(pixelLocation, unmapped.xy,
                                              depthVal, inDepth2World))
         IN ValidateEach(inDepthImg, inDepth2World, Tail(inBlobPixels2D),
                         unmap, out)

ValidateBlobs3D(inDepthImg, inDepth2World, inBlobPixels2D, unmap, outBlobInfo) ==
    LET cleared == ClearedOutput(outBlobInfo)
    IN IF unmap.null THEN cleared
       ELSE ValidateEach(inDepthImg, inDepth2World, inBlobPixels2D, unmap,
                         cleared)

\* Pixel locations of candidates in DepthImg16bit: of raw depth 0, 4090,
\* 4091 and 1000, one half way between 4090 and 1000, one outside the image.
DepthZero == [x |-> 0, y |-> 0]

Depth4090 == [x |-> SubPixel, y |-> 0]

Depth4091 == [x |-> 0, y |-> SubPixel]

Depth1000 == [x |-> SubPixel, y |-> SubPixel]

DepthBetween == [x |-> SubPixel + 1, y |-> 0]

Outside == [x |-> 3 * SubPixel, y |-> 0]

CandidatePixels ==
    {DepthZero, Depth4090, Depth4091, Depth1000, DepthBetween, Outside}

UnmapFunctions ==
    {UnmapFunction(TRUE, {}), UnmapFunction(FALSE, {}),
     UnmapFunction(FALSE, {Depth1000}), UnmapFunction(FALSE, {Depth4090})}

\* What the output vector holds when the call is made.
PreviousBlobInfo ==
    {<<>>, <<InfraBlobInfo(Depth1000, [x |-> 0, y |-> 0], Float(1000), Identity)>>}

InitValidate ==
    /\ callIn \in [fn : {"ValidateBlobs3D"},
                   inDepthImg : {DepthImg16bit},
                   inDepth2World : {Identity},
                   inBlobPixels2D : SeqsUpTo(CandidatePixels, MaxCandidates),
                   unmap : UnmapFunctions,
                   outBlobInfo : PreviousBlobInfo]
    /\ callOut = <<>>

CallValidateBlobs3D ==
    /\ callIn # <<>>
    /\ callIn.fn = "ValidateBlobs3D"
    /\ callOut = <<>>
    /\ callOut' = [outBlobInfo |->
                     ValidateBlobs3D(callIn.inDepthImg, callIn.inDepth2World,
                                     callIn.inBlobPixels2D, callIn.unmap,
                                     callIn.outBlobInfo)]
    /\ UNCHANGED <<callIn, trackerVars, matchVars, loopVars>>

NextValidate == CallValidateBlobs3D

InitSpecValidate == InitTracker /\ InitMatchIdle /\ InitValidate /\ InitLoop

SpecValidate == InitSpecValidate /\ [][NextValidate]_vars

Validated == callOut # <<>> /\ callIn.fn = "ValidateBlobs3D"

\* The pixel locations of the blobs of the output, in the order of the output.
EmittedPixels ==
    [i \in 1 .. Len(callOut.outBlobInfo) |-> callOut.outBlobInfo[i].PixelCoordinate]

\* The raw depth d, a float, is not 0 and is not above 4090.
PassesDepthCheck(d) == d # Float(0) /\ d <= Float(4090)

\* C15: ValidateBlobs3D rejects a candidate exactly when the interpolated
\* raw depth is 0 or is greater than 4090: a candidate at which the unmap
\* function succeeds is emitted if and only if its depth is neither, so a
\* depth of 4090 is accepted, 4091 is rejected and 0 is rejected.
C15_RejectedExactlyAtZeroOrAbove4090 ==
    Validated /\ ~callIn.unmap.null =>
        /\ \A i \in 1 .. Len(callIn.inBlobPixels2D) :
              LET p == callIn.inBlobPixels2D[i]
                  d == BilinearInterpolation(callIn.inDepthImg, p)
              IN MapImagePointToCameraUnitPlane(callIn.unmap, p).ok =>
                   (p \in Range(EmittedPixels) <=> PassesDepthCheck(d))
        /\ \A i \in 1 .. Len(callOut.outBlobInfo) :
              PassesDepthCheck(callOut.outBlobInfo[i].DepthLocation.range)
        /\ Depth4091 \notin Range(EmittedPixels)
        /\ DepthZero \notin Range(EmittedPixels)
        /\ ( /\ Depth4090 \in Range(callIn.inBlobPixels2D)
             /\ Depth4090 \notin callIn.unmap.bad )
           => Depth4090 \in Range(EmittedPixels)

\* Candidates of depth 4090, 4091 and 0 were validated with an unmap function
\* that succeeds at each, and only the one of depth 4090 was emitted.
C15_Witness ==
    /\ Validated
    /\ callIn.inBlobPixels2D = <<Depth4091, Depth4090, DepthZero>>
    /\ callIn.unmap = UnmapFunction(FALSE, {})
    /\ EmittedPixels = <<Depth4090>>

\* The candidate passes the depth check and its unprojection returns true.
Survives(p) ==
    /\ PassesDepthCheck(BilinearInterpolation(callIn.inDepthImg, p))
    /\ MapImagePointToCameraUnitPlane(callIn.unmap, p).ok

\* C17: ValidateBlobs3D emits exactly one InfraBlobInfo for each candidate
\* that passes the depth check and whose unprojection returns true, in the
\* order of the candidates; a candidate whose unprojection returns false is
\* skipped and the candidates after it are treated as if it were not there;
\* the output holds nothing of what it held before the call.
C17_OneBlobPerSurvivingCandidate ==
    Validated =>
        LET survivors == IF callIn.unmap.null THEN <<>>
                         ELSE SelectSeq(callIn.inBlobPixels2D,
                                        LAMBDA p : Survives(p))
        IN callOut.outBlobInfo =
             [i \in 1 .. Len(survivors) |->
                InfraBlobInfo(survivors[i],
                              MapImagePointToCameraUnitPlane(callIn.unmap,
                                                             survivors[i]).xy,
                              BilinearInterpolation(callIn.inDepthImg,
                                                    survivors[i]),
                              callIn.inDepth2World)]

\* The output held a blob before the call; the second of three candidates
\* passed the depth check and failed to unproject; the first and the third
\* were emitted.
C17_Witness ==
    /\ Validated
    /\ callIn.outBlobInfo # <<>>
    /\ callIn.inBlobPixels2D = <<DepthBetween, Depth1000, Depth4090>>
    /\ callIn.unmap = UnmapFunction(FALSE, {Depth1000})
    /\ EmittedPixels = <<DepthBetween, Depth4090>>

----------------------------------------------------------------------------
(* RemoveDuplicates, called on a list of its own. ioPointList.erase(pPoint2)
   invalidates pPoint2, and the loop then decrements and increments it: with
   iterators that are plain pointers the loop goes on at the element after
   the erased one, with checked iterators the decrement terminates the
   program. Both outcomes are kept. *)

MaxPoints == 4

DuplicateCoords == {0, 5, 10, 12, 300}

\* The pairs (pPoint1, pPoint2) of the first erase, as 0-based indices.
DuplicatePairs(ioPointList) ==
    {pair \in (0 .. Len(ioPointList) - 1) \X (0 .. Len(ioPointList) - 1) :
        /\ pair[1] < pair[2]
        /\ Norm(ioPointList[pair[1] + 1], ioPointList[pair[2] + 1])
             < THRESH_FOR_DUPLICATES}

\* The list as the first call of erase leaves it.
FirstErase(ioPointList) ==
    LET pairs == DuplicatePairs(ioPointList)
        first == CHOOSE pair \in pairs :
                    \A other \in pairs :
                       \/ pair[1] < other[1]
                       \/ pair[1] = other[1] /\ pair[2] <= other[2]
    IN EraseAt(ioPointList, first[2])

\* The outcomes of RemoveDuplicates(ioPointList): the list it leaves, and
\* whether the program was terminated in the call.
RemoveDuplicatesOutcomes(ioPointList) ==
    {[terminated |-> FALSE, ioPointList |-> RemoveDuplicates(ioPointList)]}
    \cup (IF DuplicatePairs(ioPointList) = {} THEN {}
          ELSE {[terminated |-> TRUE, ioPointList |-> FirstErase(ioPointList)]})

InitDuplicates ==
    /\ callIn \in [fn : {"RemoveDuplicates"},
                   ioPointList : SeqsUpTo(DuplicateCoords, MaxPoints)]
    /\ callOut = <<>>

CallRemoveDuplicates ==
    /\ callIn # <<>>
    /\ callIn.fn = "RemoveDuplicates"
    /\ callOut = <<>>
    /\ callOut' \in RemoveDuplicatesOutcomes(callIn.ioPointList)
    /\ UNCHANGED <<callIn, trackerVars, matchVars, loopVars>>

NextDuplicates == CallRemoveDuplicates

InitSpecDuplicates == InitTracker /\ InitMatchIdle /\ InitDuplicates /\ InitLoop

SpecDuplicates == InitSpecDuplicates /\ [][NextDuplicates]_vars

DuplicatesRemoved == callOut # <<>> /\ callIn.fn = "RemoveDuplicates"

\* The points of list at the positions of K, in the order of list.
Restricted(list, K) ==
    LET RECURSIVE Pick(_)
        Pick(i) == IF i > Len(list) THEN <<>>
                   ELSE (IF i \in K THEN <<list[i]>> ELSE <<>>) \o Pick(i + 1)
    IN Pick(1)

\* K holds exactly the positions of list whose point is not closer than the
\* threshold to the point of an earlier position of K.
KeepsEarlier(list, K) ==
    \A i \in 1 .. Len(list) :
       i \in K <=> \A j \in K : j < i =>
                      ~(Norm(list[i], list[j]) < THRESH_FOR_DUPLICATES)

----------------------------------------------------------------------------
(* Further claims about GetPointCorrespondence (SpecMatch) *)

\* a comes before b in the lexicographic order of index sequences
LexLess(a, b) ==
    \/ Len(a) < Len(b) /\ SubSeq(b, 1, Len(a)) = a
    \/ \E k \in 1 .. Min(Len(a), Len(b)) :
          /\ SubSeq(a, 1, k - 1) = SubSeq(b, 1, k - 1)
          /\ a[k] < b[k]

\* seq assigns a distinct collected point to every reference point, and the
\* distance of every two consecutive ones agrees with the reference.
SatisfiesEveryDistance(seq, ref, col) ==
    /\ Len(seq) = Len(ref)
    /\ \A i \in 2 .. Len(seq) :
          Abs(Norm(col[seq[i] + 1], col[seq[i - 1] + 1])
              - Norm(ref[i], ref[i - 1])) <= THRESH_FOR_DISTANCE

Assignments(ref, col) ==
    {seq \in InjectiveSeqs(0 .. (Len(col) - 1), Len(ref)) :
        SatisfiesEveryDistance(seq, ref, col)}

\* C19: the candidates are returned in ascending lexicographic order of
\* their index sequences, and the first of them, which the tracker uses, is
\* the lexicographically smallest sequence that satisfies every
\* consecutive-distance constraint; the list returned is the one the inputs
\* determine.
C19_FirstCandidateIsLexSmallest ==
    (Called /\ matchOut.ret) =>
        LET ref == matchOut.ReferencePoints
            col == matchOut.CollectedPoints
            list == matchOut.CorrespondenceList
        IN /\ \A c \in 1 .. (Len(list) - 1) : LexLess(list[c], list[c + 1])
           /\ list[1] \in Assignments(ref, col)
           /\ \A seq \in Assignments(ref, col) :
                 seq = list[1] \/ LexLess(list[1], seq)
           /\ matchOut = GetPointCorrespondence(matchIn.ReferencePoints,
                                                matchIn.CollectedPoints, <<>>)

----------------------------------------------------------------------------
(* A tracker of one tool of four markers, and frames that show exactly the
   four markers, moved as a rigid body, in any order of the blobs. *)

ToolMarkers == 4

MaxToolFrames == 1

\* x coordinates of the markers of a tool
ToolCoords == {0, 300, 700, 1000, 1200}

FourPointGeometries ==
    {g \in InjectiveSeqs(ToolCoords, ToolMarkers) : Len(g) = ToolMarkers}

\* poses of the tool in the world: a rotation that keeps or turns the axis,
\* and a translation
KnownTransforms == [r : {1, 0 - 1}, t : {0, 450}]

\* transform * point
Moved(transform, point) == transform.r * point + transform.t

BlobOrders ==
    {o \in InjectiveSeqs(1 .. ToolMarkers, ToolMarkers) : Len(o) = ToolMarkers}

\* the validated blobs of a frame that shows the markers of geometry moved
\* by transform; the blob at position i of the frame is of marker order[i]
MovedBlobs(geometry, transform, order) ==
    [i \in 1 .. ToolMarkers |-> BlobAt(Moved(transform, geometry[order[i]]))]

ConfigureTool ==
    /\ lastCall = "none"
    /\ \E g \in FourPointGeometries : Construct(<<EntryOf(1, g)>>)
    /\ UNCHANGED <<matchVars, callVars, loopVars>>

\* frames processed since the tracker was constructed
FramesShown == IF callIn = <<>> THEN 0 ELSE callIn.frames

FrameOfTool ==
    /\ lastCall # "none"
    /\ FramesShown < MaxToolFrames
    /\ \E transform \in KnownTransforms, order \in BlobOrders :
          /\ ProcessLatestFrames(MovedBlobs(configGeometry[1], transform, order))
          /\ callIn' = [fn |-> "ProcessLatestFrames", transform |-> transform,
                        order |-> order, frames |-> FramesShown + 1]
    /\ UNCHANGED <<callOut, matchVars, loopVars>>

NextEndToEnd == ConfigureTool \/ FrameOfTool

InitSpecEndToEnd == InitTracker /\ InitMatchIdle /\ InitCallIdle /\ InitLoop

SpecEndToEnd == InitSpecEndToEnd /\ [][NextEndToEnd]_vars

ToolFrameProcessed == lastCall = "ProcessLatestFrames" /\ callIn # <<>>

\* The tool is visible, every geometry point is paired with the blob of its
\* own marker, and the pose is the transform by which the markers were moved.
Recovered ==
    LET tool == m_ToolDictionary[1]
        geometry == configGeometry[1]
    IN /\ tool.VisibleToHoloLens
       /\ tool.GeometryPoints = geometry
       /\ tool.ObservedPoints_World =
             [i \in 1 .. ToolMarkers |-> Moved(callIn.transform, geometry[i])]
       /\ tool.ObservedPoints_Depth =
             [i \in 1 .. ToolMarkers |->
                BlobAt(Moved(callIn.transform, geometry[i])).DepthLocation]
       /\ tool.ObservedImgKeypoints =
             [i \in 1 .. ToolMarkers |->
                ToPoint2i(BlobAt(Moved(callIn.transform, geometry[i])).PixelCoordinate)]
       /\ tool.PoseMatrix_HoloWorld = callIn.transform

\* No assignment of the markers to themselves other than the identity keeps
\* every distance of two consecutive markers within THRESH_FOR_DISTANCE.
Unambiguous(geometry) ==
    Assignments(geometry, geometry) = {[i \in 1 .. Len(geometry) |-> i - 1]}

----------------------------------------------------------------------------
(* ComputeRigidTransform in three dimensions. A Vector3d is a triple, a
   Matrix3d the triple of its rows. Coordinates are integers, and the
   matrices of the decomposition are taken from the orthogonal matrices with
   integer entries: what JacobiSVD returns for a matrix H is any U, singular
   values and V of these with H = U * diag(singular values) * V^T, the
   singular values not negative and in decreasing order. The inputs are
   chosen such that H has such a decomposition. Centroids are kept
   multiplied by the number of pairs, which keeps every step exact. *)

Axes == 1 .. 3

Vector3d(x, y, z) == <<x, y, z>>

Dot(a, b) == a[1] * b[1] + a[2] * b[2] + a[3] * b[3]

Column(M, j) == <<M[1][j], M[2][j], M[3][j]>>

Transpose(M) == [i \in Axes |-> Column(M, i)]

MatMul(A, B) == [i \in Axes |-> [j \in Axes |-> Dot(A[i], Column(B, j))]]

MatVec(A, v) == [i \in Axes |-> Dot(A[i], v)]

VecAdd(a, b) == [i \in Axes |-> a[i] + b[i]]

VecSub(a, b) == [i \in Axes |-> a[i] - b[i]]

Scaled(k, v) == [i \in Axes |-> k * v[i]]

Determinant(M) ==
      M[1][1] * (M[2][2] * M[3][3] - M[2][3] * M[3][2])
    - M[1][2] * (M[2][1] * M[3][3] - M[2][3] * M[3][1])
    + M[1][3] * (M[2][1] * M[3][2] - M[2][2] * M[3][1])

Identity3d == [i \in Axes |-> [j \in Axes |-> IF i = j THEN 1 ELSE 0]]

Diagonal(w) == [i \in Axes |-> [j \in Axes |-> IF i = j THEN w[i] ELSE 0]]

\* The orthogonal matrices with integer entries: one entry of 1 or -1 in
\* every row and every column.
Orthogonal ==
    {[i \in Axes |-> [j \in Axes |-> IF p[i] = j THEN s[i] ELSE 0]] :
        p \in {q \in [Axes -> Axes] : \A i, j \in Axes : i # j => q[i] # q[j]},
        s \in [Axes -> {1, 0 - 1}]}

\* Matrix4d with the rotation block R and the translation block t
Matrix4dOf(R, t) == [R |-> R, t |-> t]

RECURSIVE VecSum(_)
VecSum(points) ==
    IF points = <<>> THEN <<0, 0, 0>>
    ELSE VecAdd(Head(points), VecSum(Tail(points)))

RECURSIVE OuterSum(_, _)
\* D^T * S, the sum over the pairs of the outer products of the rows
OuterSum(D, S) ==
    IF D = <<>> THEN Diagonal(<<0, 0, 0>>)
    ELSE LET rest == OuterSum(Tail(D), Tail(S))
         IN [i \in Axes |-> [j \in Axes |-> Head(D)[i] * Head(S)[j] + rest[i][j]]]

\* svd.compute(H_): the decompositions of H. H * V = U * diag(w) makes w[j]
\* the length of column j of H * V, which has a single entry that is not 0.
JacobiSVD(H) ==
    UNION {LET B == MatMul(H, V)
               w == [j \in Axes |-> Abs(B[1][j]) + Abs(B[2][j]) + Abs(B[3][j])]
           IN IF w[1] >= w[2] /\ w[2] >= w[3]
              THEN {[U |-> U, V |-> V] :
                      U \in {Q \in Orthogonal :
                                \A i, j \in Axes : Q[i][j] * w[j] = B[i][j]}}
              ELSE {} :
           V \in Orthogonal}

\* a solver that leaves a reflection as it is
KeepReflection(U, Vt) == MatMul(U, Vt)

\* R = U * Vt, and with the last row of Vt negated where that is a reflection
ProperRotation(U, Vt) ==
    LET R == MatMul(U, Vt)
    IN IF Determinant(R) < 0
       THEN MatMul(U, [Vt EXCEPT ![3] = Scaled(0 - 1, Vt[3])])
       ELSE R

\* a solver that returns a half turn whatever the lists are
HalfTurnOutcomes(src, dst) ==
    {Matrix4dOf(Diagonal(<<0 - 1, 0 - 1, 1>>), <<0, 0, 0>>)}

\* The matrices ComputeRigidTransform(src, dst) may return.
ComputeRigidTransformOutcomes(src, dst) ==
    IF Len(src) # Len(dst) THEN {Matrix4dOf(Identity3d, <<0, 0, 0>>)}
    ELSE LET pairSize == Len(src)
             sum_src == VecSum(src)
             sum_dst == VecSum(dst)
             S == [i \in 1 .. pairSize |-> VecSub(Scaled(pairSize, src[i]), sum_src)]
             D == [i \in 1 .. pairSize |-> VecSub(Scaled(pairSize, dst[i]), sum_dst)]
             H == OuterSum(D, S)
         IN {LET R == ProperRotation(svd.U, Transpose(svd.V))
                 t == VecSub(sum_dst, MatVec(R, sum_src))
             IN Matrix4dOf(R, [i \in Axes |-> t[i] \div pairSize]) :
                svd \in UNION {JacobiSVD(H_) : H_ \in {H}}}

\* Point sets: six points in space (about a centre off the origin), four and
\* three points in a plane, three points on a line, and six points of equal
\* spread along the three axes.
PointSets ==
    {<< <<5, 1, 0>>, <<3, 1, 0>>, <<4, 3, 0>>, <<4, 0 - 1, 0>>, <<4, 1, 3>>, <<4, 1, 0 - 3>> >>,
     << <<1, 0, 0>>, <<0 - 1, 0, 0>>, <<0, 2, 0>>, <<0, 0 - 2, 0>> >>,
     << <<2, 0, 0>>, <<0 - 1, 1, 0>>, <<0 - 1, 0 - 1, 0>> >>,
     << <<0, 0, 0>>, <<1, 0, 0>>, <<3, 0, 0>> >>,
     << <<1, 0, 0>>, <<0 - 1, 0, 0>>, <<0, 1, 0>>, <<0, 0 - 1, 0>>, <<0, 0, 1>>, <<0, 0, 0 - 1>> >>}

ProperRotations == {R \in Orthogonal : Determinant(R) = 1}

Translations == {<<0, 0, 0>>, <<10, 0 - 20, 30>>}

\* R * S + t
MovedSet(R, t, S) == [i \in 1 .. Len(S) |-> VecAdd(MatVec(R, S[i]), t)]

\* The calls: dst is src moved by R and t, whole or without its last point.
RigidCalls ==
    {[fn |-> "ComputeRigidTransform", src |-> S, R |-> R, t |-> t,
      dst |-> SubSeq(MovedSet(R, t, S), 1, Len(S) - short)] :
        S \in PointSets, R \in ProperRotations, t \in Translations,
        short \in {0, 1}}

InitRigid ==
    /\ callIn \in RigidCalls
    /\ callOut = <<>>

CallComputeRigidTransform ==
    /\ callIn # <<>>
    /\ callIn.fn = "ComputeRigidTransform"
    /\ callOut = <<>>
    /\ \E returnMat \in ComputeRigidTransformOutcomes(callIn.src, callIn.dst) :
          callOut' = [returnMat |-> returnMat]
    /\ UNCHANGED <<callIn, trackerVars, matchVars, loopVars>>

NextRigid == CallComputeRigidTransform

InitSpecRigid == InitTracker /\ InitMatchIdle /\ InitRigid /\ InitLoop

SpecRigid == InitSpecRigid /\ [][NextRigid]_vars

Solved == callOut # <<>> /\ callIn.fn = "ComputeRigidTransform"

\* dst is the whole of src, moved
WholeSet == Len(callIn.dst) = Len(callIn.src)

\* The points of S lie on one line.
Collinear(S) ==
    \A i, j \in 1 .. Len(S) :
       LET a == VecSub(S[i], S[1])
           b == VecSub(S[j], S[1])
       IN /\ a[2] * b[3] = a[3] * b[2]
          /\ a[3] * b[1] = a[1] * b[3]
          /\ a[1] * b[2] = a[2] * b[1]

IsProperRotation(R) ==
    /\ MatMul(R, Transpose(R)) = Identity3d
    /\ Determinant(R) = 1

\* C21 as stated: for any point set S of at least 3 points and any proper
\* rotation R with translation t, ComputeRigidTransform(S, R*S + t) returns
\* the transform made of R and t, and the rotation block it returns is
\* always a proper rotation, never a reflection.
C21_RecoversAnyPointSet ==
    Solved =>
        /\ IsProperRotation(callOut.returnMat.R)
        /\ (WholeSet /\ Len(callIn.src) >= 3)
             => callOut.returnMat = Matrix4dOf(callIn.R, callIn.t)

\* C21, for point sets that are not on one line: for any point set S of at
\* least 3 points that do not all lie on one line and any proper rotation R
\* with translation t, ComputeRigidTransform(S, R*S + t) returns the
\* transform made of R and t; the rotation block returned is a proper
\* rotation for every input.
C21_RecoversNonCollinearPointSet ==
    Solved =>
        /\ IsProperRotation(callOut.returnMat.R)
        /\ (WholeSet /\ Len(callIn.src) >= 3 /\ ~Collinear(callIn.src))
             => callOut.returnMat = Matrix4dOf(callIn.R, callIn.t)

\* Three points of a plane were moved by a rotation that is not the identity
\* and a translation, and the transform was recovered.
C21_Witness ==
    /\ Solved
    /\ WholeSet
    /\ Len(callIn.src) = 3
    /\ ~Collinear(callIn.src)
    /\ callIn.R # Identity3d
    /\ callIn.t # <<0, 0, 0>>
    /\ callOut.returnMat = Matrix4dOf(callIn.R, callIn.t)

----------------------------------------------------------------------------
(* The identity that ComputeRigidTransform returns for lists of different
   length: calls of the solver on such lists, and beside them a tracker that
   is configured and processes frames. *)

MismatchedCalls == {c \in RigidCalls : Len(c.src) # Len(c.dst)}

InitSentinel ==
    /\ callIn \in MismatchedCalls \cup {<<>>}
    /\ callOut = <<>>

SetToolListOfTracker ==
    /\ callIn = <<>>
    /\ SetToolList
    /\ UNCHANGED <<matchVars, callVars, loopVars>>

FrameOfTracker ==
    /\ callIn = <<>>
    /\ Frame
    /\ UNCHANGED <<matchVars, callVars, loopVars>>

NextSentinel == CallComputeRigidTransform \/ SetToolListOfTracker \/ FrameOfTracker

InitSpecSentinel == InitTracker /\ InitMatchIdle /\ InitSentinel /\ InitLoop

SpecSentinel == InitSpecSentinel /\ [][NextSentinel]_vars

\* C22: ComputeRigidTransform returns the 4x4 identity transform, without
\* raising an error, whenever its two input lists differ in length; the
\* frame update never reports such an identity as the pose of a visible
\* tool: the pose of a visible tool is the one computed from its geometry
\* and as many observed points.
C22_IdentityForMismatchedLists ==
    /\ (Solved /\ Len(callIn.src) # Len(callIn.dst))
          => callOut.returnMat = Matrix4dOf(Identity3d, <<0, 0, 0>>)
    /\ lastCall = "ProcessLatestFrames" =>
          \A k \in DOMAIN m_ToolDictionary :
             LET tool == m_ToolDictionary[k]
             IN tool.VisibleToHoloLens =>
                  /\ Len(tool.GeometryPoints) = Len(tool.ObservedPoints_World)
                  /\ tool.PoseMatrix_HoloWorld =
                        ComputeRigidTransform(tool.GeometryPoints,
                                              tool.ObservedPoints_World)

\* The solver was called with a list of four points and a list of three and
\* returned the identity.
C22_Witness ==
    /\ Solved
    /\ Len(callIn.src) = 4
    /\ Len(callIn.dst) = 3
    /\ callOut.returnMat = Matrix4dOf(Identity3d, <<0, 0, 0>>)

----------------------------------------------------------------------------
(* ImageProc::DetectBlobs2D. The image is held as the contours that
   cv::findContours returns for it, each with what OpenCV measures: the area
   and the circularity (in hundredths) of the contour, and whether the
   enlarged crop around it has a contour and the circularity of the first
   one. A centre is held as the contour it is of and the way it was found. *)

MaxContours == 2

Contour(name, area, circ, large, largeCirc) ==
    [name |-> name, area |-> area, circ |-> circ, large |-> large,
     largeCirc |-> largeCirc]

\* A round marker; a speck and a glare that the area filter drops; a streak;
\* a bright rectangle of 5 by 9 pixels, whose contour through the pixel
\* centres is 4 by 8 (circularity 0.698) and whose enlarged crop is rounder
\* (0.71); a round marker whose crop shows the edge of a neighbour first;
\* a marker whose enlarged crop has no contour.
Contours ==
    {Contour("marker", 50, 88, TRUE, 90),
     Contour("speck", 4, 80, TRUE, 85),
     Contour("glare", 16385, 80, TRUE, 85),
     Contour("streak", 40, 30, TRUE, 30),
     Contour("rectangle", 32, 69, TRUE, 71),
     Contour("neighbour", 50, 88, TRUE, 20),
     Contour("faint", 50, 88, FALSE, 0)}

\* if (area < 5 || area > 16384) continue;
AreaRejected(area) == area < 5 \/ area > 16384

\* if (circ < 0.7f) continue;
CircularityRejected(circ) == circ < 70

RECURSIVE DetectBlobs2DBasic(_)
DetectBlobs2DBasic(contours) ==
    IF contours = <<>> THEN <<>>
    ELSE LET contour == Head(contours)
             rest == DetectBlobs2DBasic(Tail(contours))
         IN IF AreaRejected(contour.area) THEN rest
            ELSE IF CircularityRejected(contour.circ) THEN rest
            ELSE <<[of |-> contour.name, from |-> "moments"]>> \o rest

RECURSIVE DetectBlobs2DRefined(_)
DetectBlobs2DRefined(contours) ==
    IF contours = <<>> THEN <<>>
    ELSE LET contour == Head(contours)
             rest == DetectBlobs2DRefined(Tail(contours))
         IN IF AreaRejected(contour.area) THEN rest
            ELSE IF ~contour.large THEN rest
            ELSE IF CircularityRejected(contour.largeCirc) THEN rest
            ELSE <<[of |-> contour.name, from |-> "fitEllipseDirect"]>> \o rest

\* DetectBlobs2D: outPixelLocations as the call leaves it
DetectBlobs2D(processed_image, method) ==
    IF method = "RefineByScaling" THEN DetectBlobs2DRefined(processed_image)
    ELSE DetectBlobs2DBasic(processed_image)

BlobDetectionMethod == {"Basic", "RefineByScaling"}

InitDetect ==
    /\ callIn \in [fn : {"DetectBlobs2D"},
                   processed_image : SeqsUpTo(Contours, MaxContours)]
    /\ callOut = <<>>

\* One strategy that has not yet been run on the image is run on it.
CallDetectBlobs2D ==
    /\ callIn # <<>>
    /\ callIn.fn = "DetectBlobs2D"
    /\ \E method \in BlobDetectionMethod \ DOMAIN callOut :
          callOut' = [m \in DOMAIN callOut \cup {method} |->
                        IF m = method
                        THEN DetectBlobs2D(callIn.processed_image, method)
                        ELSE callOut[m]]
    /\ UNCHANGED <<callIn, trackerVars, matchVars, loopVars>>

NextDetect == CallDetectBlobs2D

InitSpecDetect == InitTracker /\ InitMatchIdle /\ InitDetect /\ InitLoop

SpecDetect == InitSpecDetect /\ [][NextDetect]_vars

\* The contours for which the run of method emitted a centre, in order.
Accepted(method) ==
    [i \in 1 .. Len(callOut[method]) |-> callOut[method][i].of]

\* C23: the RefineByScaling strategy applies the same area and circularity
\* filters as the Basic strategy to the original region, so for every image
\* it emits one centre for exactly the regions the Basic strategy accepts.
C23_RefinedAcceptsWhatBasicAccepts ==
    (callIn # <<>> /\ callIn.fn = "DetectBlobs2D"
       /\ DOMAIN callOut = BlobDetectionMethod)
      => Accepted("RefineByScaling") = Accepted("Basic")

----------------------------------------------------------------------------
(* Further claims about the worker loop (SpecLoop) *)

\* Worker w has the frame source's frame and finds its timestamp to be the
\* last one it has seen.
RepeatedFrame(w) ==
    /\ DepthSensorLoop_GetNextBuffer(w)
    /\ m_depthSensor # "nullptr"
    /\ sensorTimestamp = worker[w].lastTimestamp

\* C24: when the frame source returns a frame whose timestamp equals the
\* last one seen, the worker neither processes nor publishes it and polls
\* again; every distinct frame is processed and published at most once: a
\* worker that publishes the tool array of a frame does not publish the
\* frame that was published last.
C24_RepeatedFrameSkippedFramePublishedOnce ==
    [][\A w \in Workers :
          /\ RepeatedFrame(w) =>
                /\ worker'[w].pc = "L355"
                /\ UNCHANGED <<toolChannel, imgChannel, published>>
          /\ DepthSensorLoop_publish(w) => published["Tools"] # worker[w].frame]_vars

\* Worker w is past the start-up check: it opens the stream, or runs the
\* loop, or closes the stream.
InLoop(w) ==
    worker[w].pc \in {"L330", "L355", "L363", "L408", "L445", "L446", "L447",
                      "L463", "L481", "L494"}

\* C27: at most one worker loop processes frames at any time: of two worker
\* threads the later one returns at the start-up check, under every
\* interleaving of the two checks, without opening the stream or processing
\* a frame.
C27_AtMostOneWorkerInLoop ==
    \A v, w \in Workers : (InLoop(v) /\ InLoop(w)) => v = w

\* A GetTrackedToolsPoseMatrices call is not under way, the worker is not
\* writing the tool array, and the array holds the tool array of the frame
\* published last, which is not what the last call returned.
UnreadPublish ==
    /\ app.pc = "idle"
    /\ m_toolDoubleVectorMutex = Free
    /\ published["Tools"] # 0
    /\ m_OutputToolPoseVector = SerializeToolDictionary(published["Tools"])
    /\ tools2worldArr # m_OutputToolPoseVector

\* C25: no publish is lost on the tool-pose channel: under every
\* interleaving of the worker's publish and the consumer's read, whenever
\* the shared array holds a published value that no
\* GetTrackedToolsPoseMatrices call has yet returned, ToolDictionaryUpdated()
\* reports true.
C25_UnreadPublishIsFlagged == UnreadPublish => m_toolDictUpdated

\* Worker w has a frame of GetNextBuffer that it has not released.
HoldsFrame(w) ==
    worker[w].pc \in {"L408", "L445", "L446", "L447", "L463", "L481"}

\* The step of worker w that runs lines 489-490, Release on the frame.
ReleasesFrame(w) ==
    \/ DepthSensorLoop_publish(w) /\ ~worker[w].stash
    \/ DepthSensorLoop_flags(w)

\* C28: every sensor frame the worker obtains from GetNextBuffer is released
\* before the worker requests the next one, on every path through the loop
\* body: a worker that holds a frame, or obtains one, comes back to the
\* head of the loop only by the step that releases the frame.
C28_FrameReleasedOnEveryPath ==
    [][\A w \in Workers :
          /\ (HoldsFrame(w) /\ worker'[w].pc = "L355") => ReleasesFrame(w)
          /\ (DepthSensorLoop_GetNextBuffer(w) /\ m_depthSensor # "nullptr")
                => worker'[w].pc # "L355"]_vars

\* C29: for the raw image channels, RawDepthImageUpdated() and
\* RawABImageUpdated() report true from the moment the worker has stored a
\* new raw depth / raw AB image until a consumer reads that buffer: the
\* step of the worker that completes the store leaves both flags set, and a
\* set flag is cleared only by the getter of its channel.
C29_RawImageFlagsSetOnStore ==
    [][/\ \A w \in Workers :
             DepthSensorLoop_flags(w) =>
                 /\ m_ImageUpdated'["RawDepth"]
                 /\ m_ImageUpdated'["RawAB"]
       /\ (m_ImageUpdated["RawDepth"] /\ ~m_ImageUpdated'["RawDepth"])
             => GetRawDepthImageBuffer
       /\ (m_ImageUpdated["RawAB"] /\ ~m_ImageUpdated'["RawAB"])
             => GetRawABImageBuffer]_vars

----------------------------------------------------------------------------
(* Further claims about ValidateBlobs3D (SpecValidate) *)

\* C26: ValidateBlobs3D never emits an InfraBlobInfo for a candidate whose
\* depth lookup returned the invalid sentinel: every emitted blob was built
\* from a depth value d with 0 < d <= 4090, and no candidate whose lookup
\* returned the sentinel is among the emitted.
C26_NoBlobFromInvalidDepth ==
    Validated =>
        /\ \A i \in 1 .. Len(callOut.outBlobInfo) :
              LET d == callOut.outBlobInfo[i].DepthLocation.range
              IN Float(0) < d /\ d <= Float(4090)
        /\ \A i \in 1 .. Len(callIn.inBlobPixels2D) :
              BilinearInterpolation(callIn.inDepthImg, callIn.inBlobPixels2D[i])
                  = InvalidValue
                => callIn.inBlobPixels2D[i] \notin Range(EmittedPixels)

----------------------------------------------------------------------------
(* Ids written in configuration entries, in range and out of range of a
   uint8_t, in both forms. The delimited form converts the id with std::stoi
   and casts the int, which wraps. The JSON form casts a double: for a value
   that a uint8_t cannot hold the result of the cast is undefined, and it is
   taken to wrap or to saturate. *)

MaxIdEntries == 2

IdGeometries == {<<0, 300, 700>>, <<0, 400, 900>>}

DelimitedIdEntries ==
    {Numerals(EntryOf(id, g)) : id \in ConfigIds, g \in IdGeometries}

JsonIdTools ==
    {JsonTool(TRUE, "Number", id, TRUE, JsonCoordinates(g)) :
        id \in ConfigIds, g \in IdGeometries}

IdInputs ==
    {[fn |-> "SetToolListFromString", entries |-> e] :
         e \in SeqsUpTo(DelimitedIdEntries, MaxIdEntries)}
    \cup {[fn |-> "FillToolDictionaryFromJSONString", entries |-> e] :
              e \in SeqsUpTo(JsonIdTools, MaxIdEntries)}

\* The id lies in the range of a uint8_t.
FitsUInt8(id) == 0 <= id /\ id < UINT8_MOD

\* static_cast<uint8_t> of a double
CastOfDouble(v, cast) ==
    IF FitsUInt8(v) THEN v
    ELSE IF cast = "wrap" THEN v % UINT8_MOD
    ELSE IF v < 0 THEN 0 ELSE UINT8_MOD - 1

\* The "tools" array with every id as GetId's cast leaves it.
WithCastIds(toolArray, cast) ==
    [i \in 1 .. Len(toolArray) |->
        [toolArray[i] EXCEPT !.id.value = CastOfDouble(@, cast)]]

InitIds ==
    /\ callIn \in IdInputs
    /\ callOut = <<>>

CallLoaderOfIds ==
    /\ callOut = <<>>
    /\ callIn # <<>>
    /\ \E pose \in UninitialisedPoses, cast \in {"wrap", "saturate"} :
        LET out == IF callIn.fn = "SetToolListFromString"
                   THEN SetToolListFromText(callIn.entries, <<>>, pose)
                   ELSE FillToolDictionaryFromJSONString(
                            WithCastIds(callIn.entries, cast), <<>>, pose)
        IN callOut' = [raised |-> out.raised,
                       toolDictionary |-> out.toolDictionary, pose |-> pose]
    /\ UNCHANGED <<callIn, trackerVars, matchVars, loopVars>>

NextIds == CallLoaderOfIds

InitSpecIds == InitTracker /\ InitMatchIdle /\ InitIds /\ InitLoop

SpecIds == InitSpecIds /\ [][NextIds]_vars

\* The id written in an entry of either form.
WrittenId(fn, entry) ==
    IF fn = "SetToolListFromString" THEN entry[1].value ELSE entry.id.value

\* The dictionary a loader leaves for the entries whose id fits a uint8_t.
LoadedFromFittingIds(in, pose) ==
    LET fitting == SelectSeq(in.entries,
                             LAMBDA entry : FitsUInt8(WrittenId(in.fn, entry)))
    IN IF in.fn = "SetToolListFromString"
       THEN SetToolListFromText(fitting, <<>>, pose).toolDictionary
       ELSE FillToolDictionaryFromJSONString(fitting, <<>>, pose).toolDictionary

\* C30: every tool in the dictionary is stored under exactly the integer id
\* written in its configuration entry: an entry whose id lies outside 0..255
\* is never stored under another id and never displaces a tool that really
\* has that id, in both wire forms: the dictionary is the one the entries
\* with an id in 0..255 give.
C30_StoredUnderWrittenId ==
    (callOut # <<>> /\ callIn.fn \in {"SetToolListFromString",
                                      "FillToolDictionaryFromJSONString"})
      => callOut.toolDictionary = LoadedFromFittingIds(callIn, callOut.pose)

====
